---- MODULE Spec2Model ----
(***************************************************************************)
(* Model of the claude-telegram-assistant relay: the session manager, the  *)
(* Claude CLI spawner, the memory-intent post-processor, the message       *)
(* handlers dispatched by the Telegram bot and the cron scheduler.         *)
(*                                                                         *)
(* JavaScript strings that the code inspects (engine stdout, stderr,       *)
(* responses, session ids) are sequences of one-character strings, so that *)
(* trim(), replace() and the regular expressions are computed character by *)
(* character.                                                              *)
(***************************************************************************)
EXTENDS Integers, Sequences, FiniteSets, TLC

\* ------------------------------------------------------------------------
\* Characters and string primitives
\* ------------------------------------------------------------------------

LowerLetters == {"a", "b", "c", "d", "e", "f", "g", "h", "i", "j", "k", "l", "m",
                 "n", "o", "p", "q", "r", "s", "t", "u", "v", "w", "x", "y", "z"}

UpperOf == [a |-> "A", b |-> "B", c |-> "C", d |-> "D", e |-> "E", f |-> "F",
            g |-> "G", h |-> "H", i |-> "I", j |-> "J", k |-> "K", l |-> "L",
            m |-> "M", n |-> "N", o |-> "O", p |-> "P", q |-> "Q", r |-> "R",
            s |-> "S", t |-> "T", u |-> "U", v |-> "V", w |-> "W", x |-> "X",
            y |-> "Y", z |-> "Z"]

UpperLetters == {UpperOf[c] : c \in LowerLetters}

DigitChar == <<"0", "1", "2", "3", "4", "5", "6", "7", "8", "9">>

Digits == {DigitChar[i] : i \in 1..10}

\* \s of the regular expressions and the characters trim() strips
White == {" ", "\n"}

Punct == {"!", "[", "]", "|", ":", "-", ".", ","}

Chars == LowerLetters \cup UpperLetters \cup Digits \cup White \cup Punct

\* "." of a regular expression without the s flag: anything but a line end
Dot == Chars \ {"\n"}

\* [a-f0-9-] under the i flag
HexDash == {"a", "b", "c", "d", "e", "f", "A", "B", "C", "D", "E", "F", "-"} \cup Digits

\* both cases of a character, for a literal under the i flag
BothCases(c) == IF c \in LowerLetters THEN {c, UpperOf[c]} ELSE {c}

RECURSIVE TrimStart(_)
TrimStart(s) ==
  IF s # <<>> /\ Head(s) \in White THEN TrimStart(Tail(s)) ELSE s

RECURSIVE TrimEnd(_)
TrimEnd(s) ==
  IF s # <<>> /\ s[Len(s)] \in White THEN TrimEnd(SubSeq(s, 1, Len(s) - 1)) ELSE s

\* String.prototype.trim
Trim(s) == TrimEnd(TrimStart(s))

\* does sub occur in s at position p
OccursAt(s, sub, p) ==
  /\ p >= 1
  /\ p + Len(sub) - 1 <= Len(s)
  /\ sub # <<>> => s[p] = sub[1]
  /\ SubSeq(s, p, p + Len(sub) - 1) = sub

\* String.prototype.indexOf, 1-based, 0 when absent
IndexOf(s, sub) ==
  LET at == {p \in 1..(Len(s) + 1) : OccursAt(s, sub, p)}
  IN IF at = {} THEN 0 ELSE CHOOSE p \in at : \A q \in at : p <= q

Contains(s, sub) == IndexOf(s, sub) # 0

\* String.prototype.replace(sub, ''): removes the first occurrence only
ReplaceFirst(s, sub) ==
  LET p == IndexOf(s, sub)
  IN IF p = 0 THEN s
     ELSE SubSeq(s, 1, p - 1) \o SubSeq(s, p + Len(sub), Len(s))

\* template literal `${n}` of a non-negative integer
RECURSIVE NumToStr(_)
NumToStr(n) ==
  IF n < 10 THEN <<DigitChar[n + 1]>>
  ELSE NumToStr(n \div 10) \o <<DigitChar[(n % 10) + 1]>>

\* an optional string (string | null | undefined)
None == [some |-> FALSE, v |-> <<>>]

Some(s) == [some |-> TRUE, v |-> s]

\* JavaScript truthiness of an optional string
Truthy(o) == o.some /\ o.v # <<>>

\* a || b on optional strings
OrElse(a, b) == IF Truthy(a) THEN a ELSE b

\* ------------------------------------------------------------------------
\* Backtracking regular expressions
\* ------------------------------------------------------------------------

\* one character of the class c
ReSet(c) == [t |-> "set", c |-> c, cap |-> 0, g |-> <<>>, start |-> 0]

\* c* (greedy)
ReStar(c) == [t |-> "star", c |-> c, cap |-> 0, g |-> <<>>, start |-> 0]

\* (c+?) capturing group number cap (lazy)
ReLazy(c, cap) == [t |-> "lazy", c |-> c, cap |-> cap, g |-> <<>>, start |-> 0]

\* (c+) capturing group number cap (greedy)
RePlus(c, cap) == [t |-> "plus", c |-> c, cap |-> cap, g |-> <<>>, start |-> 0]

\* (?: g )? (greedy)
ReOpt(g) == [t |-> "opt", c |-> {}, cap |-> 0, g |-> g, start |-> 0]

\* (a|b) capturing group number cap: g lists the alternatives
ReAlt(g, cap) == [t |-> "alt", c |-> {}, cap |-> cap, g |-> g, start |-> 0]

\* (?=g|$): g or the end of the input follows
ReAheadOrEnd(g) == [t |-> "ahead", c |-> {}, cap |-> 0, g |-> g, start |-> 0]

\* a literal under the i flag: g lists the class of each of its characters
ReLit(lit) ==
  <<[t |-> "lit", c |-> {}, cap |-> 0, g |-> [i \in 1..Len(lit) |-> BothCases(lit[i])],
     start |-> 0]>>

\* the end of a node list
ReEnd == [t |-> "end", c |-> {}, cap |-> 0, g |-> <<>>, start |-> 0]

NoCaps == <<None, None>>

\* the least of a non-empty set of positions
First(ps) == CHOOSE p \in ps : \A q \in ps : p <= q

\* the match of the node list at pos of s: the first one in the order a
\* backtracking matcher tries them
RECURSIVE Match(_, _, _, _)
Match(nodes, s, pos, caps) ==
  LET n == IF nodes = <<>> THEN ReEnd ELSE Head(nodes)
      rest == Tail(nodes)
      fail == [ok |-> FALSE, end |-> pos, caps |-> caps]
      has == pos <= Len(s) /\ s[pos] \in n.c
      hasLit == /\ pos + Len(n.g) - 1 <= Len(s)
                /\ \A k \in 1..Len(n.g) : s[pos + k - 1] \in n.g[k]
      more(kind) == <<[n EXCEPT !.t = kind, !.start = pos]>> \o rest
      closed == [caps EXCEPT ![n.cap] = Some(SubSeq(s, n.start, pos - 1))]
  IN CASE n.t = "end" -> [ok |-> TRUE, end |-> pos, caps |-> caps]
       [] n.t = "set" ->
            IF has THEN Match(rest, s, pos + 1, caps) ELSE fail
       [] n.t = "lit" ->
            IF hasLit THEN Match(rest, s, pos + Len(n.g), caps) ELSE fail
       [] n.t = "star" ->
            IF has
            THEN LET r == Match(nodes, s, pos + 1, caps)
                 IN IF r.ok THEN r ELSE Match(rest, s, pos, caps)
            ELSE Match(rest, s, pos, caps)
       [] n.t = "lazy" ->
            IF has THEN Match(more("lazyMore"), s, pos + 1, caps) ELSE fail
       [] n.t = "lazyMore" ->
            LET r == Match(rest, s, pos, closed)
            IN IF r.ok THEN r
               ELSE IF has THEN Match(nodes, s, pos + 1, caps) ELSE fail
       [] n.t = "plus" ->
            IF has THEN Match(more("plusMore"), s, pos + 1, caps) ELSE fail
       [] n.t = "plusMore" ->
            IF has
            THEN LET r == Match(nodes, s, pos + 1, caps)
                 IN IF r.ok THEN r ELSE Match(rest, s, pos, closed)
            ELSE Match(rest, s, pos, closed)
       [] n.t = "opt" ->
            LET r == Match(n.g \o rest, s, pos, caps)
            IN IF r.ok THEN r ELSE Match(rest, s, pos, caps)
       [] n.t = "alt" ->
            IF n.g = <<>> THEN fail
            ELSE LET r == Match(Head(n.g) \o more("capEnd"), s, pos, caps)
                 IN IF r.ok THEN r
                    ELSE Match(<<[n EXCEPT !.g = Tail(n.g)]>> \o rest, s, pos, caps)
       [] n.t = "capEnd" -> Match(rest, s, pos, closed)
       [] n.t = "ahead" ->
            IF pos = Len(s) + 1 \/ Match(n.g, s, pos, caps).ok
            THEN Match(rest, s, pos, caps) ELSE fail

NoMatch == [ok |-> FALSE, from |-> 0, end |-> 0, all |-> <<>>, caps |-> NoCaps]

\* RegExp.exec from position from: the leftmost match (there is none at a
\* position whose character the first node, a literal, does not take)
Search(re, s, from) ==
  LET at == {p \in from..Len(s) :
               /\ re[1].t = "lit" => s[p] \in re[1].g[1]
               /\ Match(re, s, p, NoCaps).ok}
  IN IF at = {} THEN NoMatch
     ELSE LET r == Match(re, s, First(at), NoCaps)
          IN [ok |-> TRUE, from |-> First(at), end |-> r.end,
              all |-> SubSeq(s, First(at), r.end - 1), caps |-> r.caps]

\* String.prototype.matchAll with the g flag: successive non-overlapping matches
RECURSIVE MatchAllFrom(_, _, _)
MatchAllFrom(re, s, from) ==
  LET m == Search(re, s, from)
  IN IF m.ok THEN <<m>> \o MatchAllFrom(re, s, m.end) ELSE <<>>

MatchAll(re, s) == MatchAllFrom(re, s, 1)

\* ------------------------------------------------------------------------
\* ClaudeSpawner
\* ------------------------------------------------------------------------

\* a JavaScript string of the argument list: a fixed word of the code
\* (flag, model or mode name) or a text
Word(w) == [lit |-> w, txt |-> <<>>]

Text(s) == [lit |-> "", txt |-> s]

PermissionModes == {"default", "acceptEdits", "plan", "bypass"}

ClaudeModels == {"opus", "sonnet", "haiku"}

\* ClaudeSpawnOptions: resume, sessionId (optional), model and permissionMode
\* ("" when the caller leaves them out), teamMode
SpawnOptions(prompt, resume, sessionId, model, permissionMode, teamMode) ==
  [prompt |-> prompt, resume |-> resume, sessionId |-> sessionId,
   model |-> model, permissionMode |-> permissionMode, teamMode |-> teamMode]

BuildArgsNoResumeGuard(options, agentTeams) ==
  <<Word("-p"), Text(options.prompt)>>
  \o (IF Truthy(options.sessionId)
      THEN <<Word("--resume"), Text(options.sessionId.v)>> ELSE <<>>)
  \o (IF options.model # "" THEN <<Word("--model"), Word(options.model)>> ELSE <<>>)
  \o (IF options.permissionMode # "" /\ options.permissionMode # "default"
      THEN <<Word("--mode"), Word(options.permissionMode)>> ELSE <<>>)
  \o <<Word("--output-format"), Word("text")>>
  \o (IF agentTeams /\ options.teamMode
      THEN <<Word("--teammate-mode"), Word("in-process")>> ELSE <<>>)

BuildArgs(options, agentTeams) ==
  <<Word("-p"), Text(options.prompt)>>
  \o (IF options.resume /\ Truthy(options.sessionId)
      THEN <<Word("--resume"), Text(options.sessionId.v)>> ELSE <<>>)
  \o (IF options.model # "" THEN <<Word("--model"), Word(options.model)>> ELSE <<>>)
  \o (IF options.permissionMode # "" /\ options.permissionMode # "default"
      THEN <<Word("--mode"), Word(options.permissionMode)>> ELSE <<>>)
  \o <<Word("--output-format"), Word("text")>>
  \o (IF agentTeams /\ options.teamMode
      THEN <<Word("--teammate-mode"), Word("in-process")>> ELSE <<>>)

LitSessionId == <<"s", "e", "s", "s", "i", "o", "n", " ", "i", "d", ":">>

\* /Session ID:\s*([a-f0-9-]+)/i
SessionRegex == ReLit(LitSessionId) \o <<ReStar(White), RePlus(HexDash, 1)>>

ErrExited == <<"C", "l", "a", "u", "d", "e", " ", "e", "x", "i", "t", "e", "d", " ", "w", "i", "t", "h", " ", "c", "o", "d", "e", " ">>

ErrUnknown == <<"U", "n", "k", "n", "o", "w", "n", " ", "s", "p", "a", "w", "n", " ", "e", "r", "r", "o", "r">>

\* what the child process does: the spawn or the reads throw (an Error with a
\* message, or some other value), or the process exits with a code after
\* writing stdout and stderr
ThrowOutcome(isError, message) ==
  [threw |-> TRUE, isError |-> isError, message |-> message,
   stdout |-> <<>>, stderr |-> <<>>, exitCode |-> 0]

ExitOutcome(exitCode, stdout, stderr) ==
  [threw |-> FALSE, isError |-> FALSE, message |-> <<>>,
   stdout |-> stdout, stderr |-> stderr, exitCode |-> exitCode]

\* how the promise of spawn settles: with a ClaudeResponse, or (thrown) with
\* an exception handed to the caller
Response(content, sessionId, error) ==
  [thrown |-> FALSE, content |-> content, sessionId |-> sessionId, error |-> error]

Rejected(isError, message) ==
  [thrown |-> TRUE, content |-> <<>>, sessionId |-> None,
   error |-> IF isError THEN Some(message) ELSE None]

SpawnNoCatch(options, outcome) ==
  IF outcome.threw
  THEN Rejected(outcome.isError, outcome.message)
  ELSE IF outcome.exitCode # 0
  THEN Response(<<>>, None,
                OrElse(Some(outcome.stderr),
                       Some(ErrExited \o NumToStr(outcome.exitCode))))
  ELSE LET sessionMatch == Search(SessionRegex, outcome.stdout, 1)
       IN Response(Trim(outcome.stdout),
                   OrElse(IF sessionMatch.ok THEN sessionMatch.caps[1] ELSE None,
                          options.sessionId),
                   None)

SpawnNotSticky(options, outcome) ==
  IF outcome.threw
  THEN Response(<<>>, None,
                Some(IF outcome.isError THEN outcome.message ELSE ErrUnknown))
  ELSE IF outcome.exitCode # 0
  THEN Response(<<>>, None,
                OrElse(Some(outcome.stderr),
                       Some(ErrExited \o NumToStr(outcome.exitCode))))
  ELSE LET sessionMatch == Search(SessionRegex, outcome.stdout, 1)
       IN Response(Trim(outcome.stdout),
                   IF sessionMatch.ok THEN sessionMatch.caps[1] ELSE None,
                   None)

SpawnKeepsStdout(options, outcome) ==
  IF outcome.threw
  THEN Response(<<>>, None,
                Some(IF outcome.isError THEN outcome.message ELSE ErrUnknown))
  ELSE IF outcome.exitCode # 0
  THEN Response(Trim(outcome.stdout), None, Some(outcome.stderr))
  ELSE LET sessionMatch == Search(SessionRegex, outcome.stdout, 1)
       IN Response(Trim(outcome.stdout),
                   OrElse(IF sessionMatch.ok THEN sessionMatch.caps[1] ELSE None,
                          options.sessionId),
                   None)

Spawn(options, outcome) ==
  IF outcome.threw
  THEN Response(<<>>, None,
                Some(IF outcome.isError THEN outcome.message ELSE ErrUnknown))
  ELSE IF outcome.exitCode # 0
  THEN Response(<<>>, None,
                OrElse(Some(outcome.stderr),
                       Some(ErrExited \o NumToStr(outcome.exitCode))))
  ELSE LET sessionMatch == Search(SessionRegex, outcome.stdout, 1)
       IN Response(Trim(outcome.stdout),
                   OrElse(IF sessionMatch.ok THEN sessionMatch.caps[1] ELSE None,
                          options.sessionId),
                   None)

\* ------------------------------------------------------------------------
\* Texts the engine, the user and the runtime produce
\* ------------------------------------------------------------------------

TxtSure == <<"S", "u", "r", "e", "!">>

TxtHi == <<"h", "i">>

TokAbc == <<"a", "b", "c", "-", "1", "2", "3">>

TokD4 == <<"d", "4">>

TokE5 == <<"e", "5">>

TxtCallMom == <<"c", "a", "l", "l", " ", "m", "o", "m">>

TxtGym == <<"g", "y", "m">>

TxtFri == <<"f", "r", "i">>

TagRemember == <<"[", "R", "E", "M", "E", "M", "B", "E", "R", ":", " ", "c", "a", "l", "l", " ", "m", "o", "m", "]">>

TagGoal == <<"[", "G", "O", "A", "L", ":", " ", "g", "y", "m", " ", "|", " ", "D", "E", "A", "D", "L", "I", "N", "E", ":", " ", "f", "r", "i", "]">>

TagGoalPlain == <<"[", "g", "o", "a", "l", ":", " ", "g", "y", "m", "]">>

TagDone == <<"[", "D", "O", "N", "E", ":", " ", "g", "y", "m", "]">>

ErrRate == <<"r", "a", "t", "e", " ", "l", "i", "m", "i", "t", "e", "d">>

ErrEnoent == <<"E", "N", "O", "E", "N", "T">>

SidLabel == <<"S", "e", "s", "s", "i", "o", "n", " ", "I", "D", ":", " ">>

SidLabelLower == <<"s", "e", "s", "s", "i", "o", "n", " ", "i", "d", ":">>

\* session ids the engine reports
Tokens == {TokAbc, TokD4, TokE5}

\* exit codes of the child process
ExitCodes == {0, 1, 2, 127}

\* the line of stdout that carries a session id ("" when the engine prints none)
MarkerLine(label, marker) ==
  IF marker.some THEN label \o marker.v ELSE <<>>

\* stdout of an engine run: reply text, then the session id line, then the
\* rest of the output
Stdout(reply, label, marker, post) ==
  reply \o (IF marker.some /\ reply # <<>> THEN <<"\n">> ELSE <<>>)
        \o MarkerLine(label, marker) \o post

\* ------------------------------------------------------------------------
\* MemorySystem: the memory table of the store and the intent tags
\* ------------------------------------------------------------------------

LitRemember == <<"[", "r", "e", "m", "e", "m", "b", "e", "r", ":">>

LitGoal == <<"[", "g", "o", "a", "l", ":">>

LitDeadline == <<"d", "e", "a", "d", "l", "i", "n", "e", ":">>

LitDone == <<"[", "d", "o", "n", "e", ":">>

\* /\[REMEMBER:\s*(.+?)\]/gi
RememberRegex ==
  ReLit(LitRemember) \o <<ReStar(White), ReLazy(Dot, 1), ReSet({"]"})>>

\* /\[GOAL:\s*(.+?)(?:\s*\|\s*DEADLINE:\s*(.+?))?\]/gi
GoalRegex ==
  ReLit(LitGoal)
  \o <<ReStar(White), ReLazy(Dot, 1),
       ReOpt(<<ReStar(White), ReSet({"|"}), ReStar(White)>>
             \o ReLit(LitDeadline) \o <<ReStar(White), ReLazy(Dot, 2)>>),
       ReSet({"]"})>>

\* /\[DONE:\s*(.+?)\]/gi
DoneRegex ==
  ReLit(LitDone) \o <<ReStar(White), ReLazy(Dot, 1), ReSet({"]"})>>

LowerChar(c) ==
  IF c \in UpperLetters THEN CHOOSE l \in LowerLetters : UpperOf[l] = c ELSE c

LowerStr(s) == [i \in 1..Len(s) |-> LowerChar(s[i])]

\* content ILIKE '%search%' (the model's texts have no % or _)
ILike(content, search) == Contains(LowerStr(content), LowerStr(search))

\* a row of the memory table
MemoryRow(id, type, content, deadline) ==
  [id |-> id, type |-> type, content |-> content, deadline |-> deadline,
   completed |-> FALSE]

\* a store call, as issued
StoreCall(op, content, deadline, candidates) ==
  [op |-> op, content |-> content, deadline |-> deadline, candidates |-> candidates]

\* the effect of a run so far: the response being cleaned, the table, the
\* calls issued
Effect(clean, rows, calls) == [clean |-> clean, rows |-> rows, calls |-> calls]

\* store calls of one response that may fail
MaxStoreCalls == 3

\* the store calls that fail while the store is down, and while it is up
StoreFailures == {1..MaxStoreCalls, {}}

\* the k-th store call of a run fails (the client returns an error or the
\* catch logs it) when k is in fails
Failed(e, fails) == (Len(e.calls) + 1) \in fails

StoreErrorEscapesUncaught(fails) == fails # {}

\* saveMessage, saveFact, saveGoal and completeGoal run the client in a try
\* block whose catch logs the error: no store error leaves them
StoreErrorEscapes(fails) == FALSE

\* MemorySystem.saveFact
SaveFact(e, content, fails) ==
  Effect(e.clean,
         IF Failed(e, fails) THEN e.rows
         ELSE Append(e.rows, MemoryRow(Len(e.rows) + 1, "fact", content, None)),
         Append(e.calls, StoreCall("insertFact", content, None, {})))

\* MemorySystem.saveGoal
SaveGoal(e, content, deadline, fails) ==
  Effect(e.clean,
         IF Failed(e, fails) THEN e.rows
         ELSE Append(e.rows, MemoryRow(Len(e.rows) + 1, "goal", content,
                                       IF Truthy(deadline) THEN deadline ELSE None)),
         Append(e.calls, StoreCall("insertGoal", content, deadline, {})))

\* the rows select('id').eq('type', 'goal').ilike('content', `%${searchText}%`)
\* can return
GoalCandidates(rows, searchText) ==
  {i \in 1..Len(rows) : rows[i].type = "goal" /\ ILike(rows[i].content, searchText)}

\* MemorySystem.completeGoal; limit(1) without an order returns any one of the
\* candidates: the one named by pick when it is a candidate
CompleteGoal(e, searchText, fails, pick) ==
  LET candidates == GoalCandidates(e.rows, searchText)
      chosen == IF pick \in candidates THEN pick
                ELSE CHOOSE i \in candidates : \A j \in candidates : i <= j
  IN Effect(e.clean,
            IF Failed(e, fails) \/ candidates = {} THEN e.rows
            ELSE [e.rows EXCEPT ![chosen].type = "completed_goal",
                                ![chosen].completed = TRUE],
            Append(e.calls, StoreCall("completeGoal", searchText, None, candidates)))

\* the rows limit(1) can pick from: the goals of the table and the first row
\* the response adds
Picks(rows) == {i \in 1..Len(rows) : rows[i].type = "goal"} \cup {Len(rows) + 1}

\* clean = clean.replace(match[0], '')
Strip(e, match) == Effect(ReplaceFirst(e.clean, match.all), e.rows, e.calls)

RECURSIVE RememberLoop(_, _, _)
RememberLoop(matches, e, fails) ==
  IF matches = <<>> THEN e
  ELSE RememberLoop(Tail(matches),
                    Strip(SaveFact(e, Head(matches).caps[1].v, fails), Head(matches)),
                    fails)

RECURSIVE GoalLoop(_, _, _)
GoalLoop(matches, e, fails) ==
  IF matches = <<>> THEN e
  ELSE GoalLoop(Tail(matches),
                Strip(SaveGoal(e, Head(matches).caps[1].v, Head(matches).caps[2], fails),
                      Head(matches)),
                fails)

RECURSIVE DoneLoop(_, _, _, _)
DoneLoop(matches, e, fails, pick) ==
  IF matches = <<>> THEN e
  ELSE DoneLoop(Tail(matches),
                Strip(CompleteGoal(e, Head(matches).caps[1].v, fails, pick),
                      Head(matches)),
                fails, pick)

Trimmed(e) == Effect(Trim(e.clean), e.rows, e.calls)

ProcessMemoryIntentsDoneFirst(response, rows, fails, pick) ==
  Trimmed(
    GoalLoop(MatchAll(GoalRegex, response),
      RememberLoop(MatchAll(RememberRegex, response),
        DoneLoop(MatchAll(DoneRegex, response),
                 Effect(response, rows, <<>>), fails, pick),
        fails),
      fails))

\* MemorySystem.processMemoryIntents: the REMEMBER tags, then the GOAL tags,
\* then the DONE tags of the response, each stripped from the text
ProcessMemoryIntents(response, rows, fails, pick) ==
  Trimmed(
    DoneLoop(MatchAll(DoneRegex, response),
      GoalLoop(MatchAll(GoalRegex, response),
        RememberLoop(MatchAll(RememberRegex, response),
                     Effect(response, rows, <<>>), fails),
        fails),
      fails, pick))

\* ------------------------------------------------------------------------
\* State
\* ------------------------------------------------------------------------

\* SessionManager.state, the in-memory SessionState
VARIABLE state

\* the content of session.json
VARIABLE sessionFile

\* the handlers of the bot's updates and the cron tasks: where each one is in
\* its code, what it read and what it got back
VARIABLE tasks

\* the memory table of the store
VARIABLE memory

\* the calls the last step of a handler or cron task has made to Telegram, to
\* the messages table of the store and to today's log of the workspace
VARIABLE calls

\* the number of engine invocations started so far
VARIABLE started

\* no message has been dispatched since session.clear() last ran
VARIABLE clearPending

\* the update the bot's middleware ran for in the last step, when that step
\* was the arrival of an update
VARIABLE incoming

\* one call of ClaudeSpawner.spawn: its inputs and its result
VARIABLE spawnCall

\* one call of MemorySystem.processMemoryIntents: its inputs and its effect
VARIABLE intentCall

\* one run of CronScheduler.smartCheckin from the engine's answer on: the
\* answer and what is sent
VARIABLE checkinCall

\* the SessionManager under direct calls: whether it is loaded, the file
\* writes that have not settled, the last call and what it gave back
VARIABLE sessionCall

\* one call of ClaudeSpawner.buildEnrichedPrompt: its inputs and its result
VARIABLE promptCall

\* the lock file and the processes that run main() against it
VARIABLE lockCall

\* the /mode commands and the permission checks of tools: the last call, its
\* inputs and what it gave
VARIABLE modeCall

\* the PermissionHandler under direct calls: its requests and its pending map
VARIABLE permCall

\* a call of sendResponse: the text, the chunks sent
VARIABLE chunkCall

\* the ProjectHandler under direct calls: its registry and the last call
VARIABLE projectCall

vars == <<state, sessionFile, tasks, memory, calls, started, clearPending,
          incoming, spawnCall, intentCall, checkinCall, sessionCall, promptCall,
          lockCall, modeCall,
                 permCall, chunkCall, projectCall>>

systemVars == <<state, sessionFile, tasks, memory, calls, started, clearPending,
                incoming>>

\* ------------------------------------------------------------------------
\* SessionManager
\* ------------------------------------------------------------------------

\* new Date().toISOString() when the session is created, and at any later call
StartTime == "start"

LaterTime == "later"

\* config.claude.model when CLAUDE_MODEL is not set
ConfigModel == "opus"

\* config.claude.permissionMode: loadConfig sets no such field ("" is undefined)
ConfigPermissionMode == ""

\* config.agentTeams.enabled when ENABLE_AGENT_TEAMS is not set
AgentTeamsEnabled == TRUE

TokenUsage(totalInput, totalOutput, sessionInput, sessionOutput, lastUpdated) ==
  [totalInput |-> totalInput, totalOutput |-> totalOutput,
   sessionInput |-> sessionInput, sessionOutput |-> sessionOutput,
   lastUpdated |-> lastUpdated]

\* the state load() creates when there is no session file
DefaultState(t) ==
  [sessionId |-> None, lastActivity |-> t, currentProject |-> None,
   permissionMode |-> ConfigPermissionMode, model |-> ConfigModel,
   thinkingLevel |-> "medium", verbose |-> FALSE,
   tokenUsage |-> TokenUsage(0, 0, 0, 0, t)]

\* SessionManager.updateSessionId, before the save
UpdateSessionId(s, sessionId, t) ==
  [s EXCEPT !.sessionId = Some(sessionId), !.lastActivity = t]

ClearKeepsToken(s, t) == [s EXCEPT !.lastActivity = t]

ClearResetsUsage(s, t) ==
  [s EXCEPT !.sessionId = None, !.lastActivity = t,
            !.tokenUsage = TokenUsage(0, 0, 0, 0, t)]

\* SessionManager.clear, before the save
Clear(s, t) == [s EXCEPT !.sessionId = None, !.lastActivity = t]

TouchForgets(s, t) == [s EXCEPT !.sessionId = None, !.lastActivity = t]

\* SessionManager.touch, before the save
Touch(s, t) == [s EXCEPT !.lastActivity = t]

RecordUsageNoReset(s, tokensIn, tokensOut, newSession, t) ==
  LET u == s.tokenUsage
  IN [s EXCEPT !.tokenUsage =
        TokenUsage(u.totalInput + tokensIn, u.totalOutput + tokensOut,
                   u.sessionInput + tokensIn, u.sessionOutput + tokensOut, t)]

\* SessionManager.recordUsage, before the save
RecordUsage(s, tokensIn, tokensOut, newSession, t) ==
  LET u == s.tokenUsage
      sessionInput == IF newSession THEN 0 ELSE u.sessionInput
      sessionOutput == IF newSession THEN 0 ELSE u.sessionOutput
  IN [s EXCEPT !.tokenUsage =
        TokenUsage(u.totalInput + tokensIn, u.totalOutput + tokensOut,
                   sessionInput + tokensIn, sessionOutput + tokensOut, t)]

\* the mutators of SessionManager, before the save
Mutate(s, call, t) ==
  CASE call.op = "updateSessionId" -> UpdateSessionId(s, call.text.v, t)
    [] call.op = "setProject" -> [s EXCEPT !.currentProject = call.text]
    [] call.op = "setPermissionMode" -> [s EXCEPT !.permissionMode = call.word]
    [] call.op = "setModel" -> [s EXCEPT !.model = call.word]
    [] call.op = "clear" -> Clear(s, t)
    [] call.op = "touch" -> Touch(s, t)
    [] call.op = "setThinkingLevel" -> [s EXCEPT !.thinkingLevel = call.word]
    [] call.op = "setVerbose" -> [s EXCEPT !.verbose = call.flag]
    [] call.op = "recordUsage" ->
         RecordUsage(s, call.tokensIn, call.tokensOut, call.flag, t)

\* what getTokenUsage returns
UsageReport(input, output, sessionInput, sessionOutput, cost, sessionCost) ==
  [input |-> input, output |-> output, total |-> input + output,
   sessionInput |-> sessionInput, sessionOutput |-> sessionOutput,
   sessionTotal |-> sessionInput + sessionOutput,
   cost |-> cost, sessionCost |-> sessionCost]

\* the prices of getTokenUsage per token, in hundred-millionths of a dollar
Pricing ==
  [opus |-> [input |-> 1500, output |-> 7500],
   sonnet |-> [input |-> 300, output |-> 1500],
   haiku |-> [input |-> 25, output |-> 125]]

\* SessionManager.getTokenUsage on a loaded state
GetTokenUsage(s) ==
  LET u == s.tokenUsage
      price == Pricing[s.model]
  IN UsageReport(u.totalInput, u.totalOutput, u.sessionInput, u.sessionOutput,
                 u.totalInput * price.input + u.totalOutput * price.output,
                 u.sessionInput * price.input + u.sessionOutput * price.output)

NoSpawnCall ==
  [phase |-> "none", options |-> SpawnOptions(<<>>, FALSE, None, "", "", FALSE),
   agentTeams |-> FALSE, reply |-> <<>>, marker |-> None,
   outcome |-> ExitOutcome(0, <<>>, <<>>), args |-> <<>>,
   result |-> Response(<<>>, None, None)]

NoIntentCall ==
  [phase |-> "none", parts |-> <<>>, response |-> <<>>, rowsBefore |-> <<>>,
   fails |-> {}, pick |-> 1, effect |-> Effect(<<>>, <<>>, <<>>)]

\* a call of a SessionManager method: its name and its arguments (a string
\* or null, a word of the code, two numbers, a boolean)
SessionOp(op, text, word, tokensIn, tokensOut, flag) ==
  [op |-> op, text |-> text, word |-> word, tokensIn |-> tokensIn,
   tokensOut |-> tokensOut, flag |-> flag]

NoSessionOp == SessionOp("none", None, "", 0, 0, FALSE)

NoSessionRead ==
  [op |-> "none", unloaded |-> FALSE, threw |-> FALSE,
   usage |-> UsageReport(0, 0, 0, 0, 0, 0)]

NoSessionCall ==
  [loaded |-> FALSE, pending |-> {}, issued |-> 0, applied |-> 0,
   last |-> NoSessionOp, rejected |-> FALSE, failed |-> FALSE, read |-> NoSessionRead]

NoPromptCall ==
  [phase |-> "none", userName |-> <<>>, userMessage |-> <<>>, soul |-> None,
   agents |-> None, tools |-> None, memory |-> None, memoryContext |-> None,
   relevantMessages |-> None, prompt |-> <<>>]

\* processes that run main() against the same lock file
NumProcs == 3

\* their process ids
Pids == 1..NumProcs

\* permission requests of one run of the model
MaxRequests == 2

RequestIds == 1..MaxRequests

\* a permission request that has not been made: where requestPermission
\* stands, what it returned, how often and by what its promise was settled,
\* the user's choice, its timer, and whether its message reached the user
NoRequest ==
  [phase |-> "none", result |-> FALSE, settles |-> 0, settledBy |-> "none",
   choice |-> FALSE, timer |-> "unset", sent |-> FALSE]

\* no callback query answered yet
NoAnswer == [id |-> 0, expired |-> FALSE]

\* a PermissionHandler that has just been constructed
NoPermCall ==
  [requests |-> [r \in RequestIds |-> NoRequest], pendingRequests |-> {},
   answer |-> NoAnswer, count |-> 0]

NoChunkCall == [phase |-> "none", text |-> <<>>, chunks |-> <<>>]

\* a call of a ProjectHandler method: its name, its project id, and the
\* session's current project when it was made
ProjectOp(op, id, before) == [op |-> op, id |-> id, before |-> before]

\* a ProjectHandler that has just been constructed: the registry, the content
\* of projects.json, the ids generated, the last call, what it returned and
\* whether a call has thrown
NoProjectCall ==
  [projects |-> {}, projectsFile |-> {}, generated |-> {},
   last |-> ProjectOp("none", <<>>, None), returned |-> FALSE, threw |-> FALSE]

\* no /mode command and no permission check yet
NoModeCall ==
  [phase |-> "none", args |-> None, before |-> "", replies |-> <<>>,
   tool |-> "", mode |-> "", asks |-> FALSE]

\* the required settings of process.env as loadConfig reads them ("" is a
\* variable that is not set)
Env(botToken, userId, supabaseUrl, supabaseAnonKey) ==
  [read |-> TRUE, botToken |-> botToken, userId |-> userId,
   supabaseUrl |-> supabaseUrl, supabaseAnonKey |-> supabaseAnonKey]

\* the environment of a process that has not loaded its configuration
NoEnv == [Env(<<>>, <<>>, <<>>, <<>>) EXCEPT !.read = FALSE]

\* a process that has not exited
NotExited == -1

\* no lock file, and no process started
NoLockCall ==
  [file |-> None, procs |-> [p \in Pids |-> "off"],
   env |-> [p \in Pids |-> NoEnv], code |-> [p \in Pids |-> NotExited]]

NoCheckinCall ==
  [phase |-> "none", decision |-> None, message |-> None, reason |-> None,
   outcome |-> ExitOutcome(0, <<>>, <<>>), sent |-> <<>>,
   hour |-> 0, invoked |-> FALSE, logged |-> <<>>]

\* ------------------------------------------------------------------------
\* The bot's handlers, the cron tasks and the engine
\* ------------------------------------------------------------------------

\* handlers of updates that can be in their code at once
NumHandlers == 2

\* cron tasks that can be in their code at once
NumCron == 1

\* engine invocations of one run of the model
MaxInvocations == 2

HandlerIds == 1..NumHandlers

CronIds == (NumHandlers + 1)..(NumHandlers + NumCron)

TaskIds == HandlerIds \cup CronIds

MessageKinds == {"text", "photo", "voice"}

CronKinds == {"checkin", "briefing"}

\* stands for the warning sign of the notices
WarnSign == "!"

ErrPrefix == <<WarnSign>> \o <<" ", "E", "r", "r", "o", "r", ":", " ">>

ErrImage == <<WarnSign>> \o <<" ", "E", "r", "r", "o", "r", " ", "p", "r", "o", "c", "e", "s", "s", "i", "n", "g", " ", "i", "m", "a", "g", "e", ".">>

ErrVoice == <<WarnSign>> \o <<" ", "C", "o", "u", "l", "d", " ", "n", "o", "t", " ", "t", "r", "a", "n", "s", "c", "r", "i", "b", "e", " ", "v", "o", "i", "c", "e", " ", "m", "e", "s", "s", "a", "g", "e", ".">>

ErrVoiceProcessing == <<WarnSign>> \o <<" ", "E", "r", "r", "o", "r", " ", "p", "r", "o", "c", "e", "s", "s", "i", "n", "g", " ", "v", "o", "i", "c", "e", " ", "m", "e", "s", "s", "a", "g", "e", ".">>

ImagePromptOpen == <<"[", "I", "m", "a", "g", "e", ":", " ">>

TempPath == <<"i", "m", "g", ".", "j", "p", "g">>

VoicePromptPrefix == <<"[", "V", "o", "i", "c", "e", " ", "m", "e", "s", "s", "a", "g", "e", " ", "t", "r", "a", "n", "s", "c", "r", "i", "b", "e", "d", "]", ":", " ">>

ImageLogPrefix == <<"[", "I", "m", "a", "g", "e", "]", ":", " ">>

VoiceLogPrefix == <<"[", "V", "o", "i", "c", "e", " ", "3", "s", "]", ":", " ">>

\* the text handed to buildEnrichedPrompt for a message
MessagePrompt(kind, text) ==
  CASE kind = "text" -> text
    [] kind = "photo" -> ImagePromptOpen \o TempPath \o <<"]", "\n", "\n">> \o text
    [] kind = "voice" -> VoicePromptPrefix \o text

\* the content saved to the messages table for a user message
MessageLogText(kind, text) ==
  CASE kind = "text" -> text
    [] kind = "photo" -> ImageLogPrefix \o text
    [] kind = "voice" -> VoiceLogPrefix \o text

\* config.workspace.dir
WorkspaceDir == <<"w", "o", "r", "k", "s", "p", "a", "c", "e">>

\* config.workspace.projectsDir
ProjectsDir == <<"p", "r", "o", "j", "e", "c", "t", "s">>

\* process.cwd(): the directory of the bot's code
CodebaseDir == <<"b", "o", "t">>

\* the id of the project of projects.json
ProjectId == <<"p", "1">>

\* path.join(dir, name)
JoinPath(dir, name) == dir \o <<"/">> \o name

\* the projects ProjectHandler.init loads from projects.json
Projects == {[id |-> ProjectId, path |-> JoinPath(ProjectsDir, ProjectId)]}

\* ProjectHandler.getCurrentProjectPath
GetCurrentProjectPath(s) ==
  IF Truthy(s.currentProject) /\ \E project \in Projects : project.id = s.currentProject.v
  THEN (CHOOSE project \in Projects : project.id = s.currentProject.v).path
  ELSE WorkspaceDir

\* the workingDir option of a call of spawn
InDir(options, workingDir) == options @@ [workingDir |-> workingDir]

\* the options a message handler passes to spawn, from the session state
HandlerOptions(kind, text, s) ==
  InDir(SpawnOptions(MessagePrompt(kind, text), Truthy(s.sessionId),
                     IF Truthy(s.sessionId) THEN s.sessionId ELSE None,
                     s.model, s.permissionMode, FALSE),
        CodebaseDir)

TxtCheckinPrompt == <<"c", "h", "e", "c", "k", " ", "i", "n">>

TxtBriefingPrompt == <<"b", "r", "i", "e", "f", "i", "n", "g">>

CronOptionsResuming(kind) ==
  InDir(SpawnOptions(IF kind = "checkin" THEN TxtCheckinPrompt ELSE TxtBriefingPrompt,
                     Truthy(state.sessionId), state.sessionId, "", "", FALSE),
        WorkspaceDir)

\* the options smartCheckin and morningBriefing pass to spawn
CronOptions(kind) ==
  InDir(SpawnOptions(IF kind = "checkin" THEN TxtCheckinPrompt ELSE TxtBriefingPrompt,
                     FALSE, None, "", "", FALSE),
        WorkspaceDir)

ErrorReplySilent(response) == <<>>

\* ctx.reply(`<warning sign> Error: ${response.error}`)
ErrorReply(response) == <<ErrPrefix \o response.error.v>>

\* the reply of the catch block of handlePhoto and handleVoice; handleText has
\* none and the exception leaves the handler
CaughtReply(kind) ==
  CASE kind = "photo" -> <<ErrImage>>
    [] kind = "voice" -> <<ErrVoiceProcessing>>
    [] OTHER -> <<>>

\* MAX_LENGTH of sendResponse
MaxLength == 4000

\* String.prototype.lastIndexOf(sub, from): the last index (from 0) not after
\* from at which sub occurs, -1 when there is none
LastIndexOf(s, sub, from) ==
  LET at == {i \in 0..from : OccursAt(s, sub, i + 1)}
  IN IF at = {} THEN -1 ELSE CHOOSE i \in at : \A k \in at : k <= i

\* where sendResponse cuts a text longer than MAX_LENGTH
SplitIndex(remaining) ==
  LET blankLine == LastIndexOf(remaining, <<"\n", "\n">>, MaxLength)
      newline == LastIndexOf(remaining, <<"\n">>, MaxLength)
      space == LastIndexOf(remaining, <<" ">>, MaxLength)
  IN IF blankLine # -1 THEN blankLine
     ELSE IF newline # -1 THEN newline
     ELSE IF space # -1 THEN space
     ELSE MaxLength

\* the while loop of sendResponse
RECURSIVE Chunks(_)
Chunks(remaining) ==
  IF Len(remaining) = 0 THEN <<>>
  ELSE IF Len(remaining) <= MaxLength THEN <<remaining>>
  ELSE LET splitIndex == SplitIndex(remaining)
       IN <<SubSeq(remaining, 1, splitIndex)>>
            \o Chunks(Trim(SubSeq(remaining, splitIndex + 1, Len(remaining))))

\* MessageHandler.sendResponse: the texts of its calls of ctx.reply
SendResponse(text) == IF Len(text) <= MaxLength THEN <<text>> ELSE Chunks(text)

QuietHoursNightOnly(hour) == hour >= 23

\* smartCheckin's quiet hours
QuietHours(hour) == hour >= 23 \/ hour < 8

\* the hours of the day a check-in is tried at
Hours == {7, 8, 22, 23}

LitDecision == <<"d", "e", "c", "i", "s", "i", "o", "n", ":">>

LitMessage == <<"m", "e", "s", "s", "a", "g", "e", ":">>

LitReason == <<"\n", "r", "e", "a", "s", "o", "n", ":">>

\* /DECISION:\s*(YES|NO)/i
DecisionRegex ==
  ReLit(LitDecision)
  \o <<ReStar(White), ReAlt(<<ReLit(<<"y", "e", "s">>), ReLit(<<"n", "o">>)>>, 1)>>

\* /MESSAGE:\s*(.+?)(?=\nREASON:|$)/is
MessageRegex ==
  ReLit(LitMessage)
  \o <<ReStar(White), ReLazy(Chars, 1), ReAheadOrEnd(ReLit(LitReason))>>

UpperChar(c) == IF c \in LowerLetters THEN UpperOf[c] ELSE c

UpperStr(s) == [i \in 1..Len(s) |-> UpperChar(s[i])]

\* what smartCheckin sends for the engine's answer: nothing, or the message
CheckinMessages(content) ==
  LET decisionMatch == Search(DecisionRegex, content, 1)
      messageMatch == Search(MessageRegex, content, 1)
      shouldCheckin == decisionMatch.ok
                       /\ UpperStr(decisionMatch.caps[1].v) = <<"Y", "E", "S">>
      message == IF messageMatch.ok THEN Trim(messageMatch.caps[1].v) ELSE <<>>
  IN IF shouldCheckin /\ message # <<>> /\ message # <<"n", "o", "n", "e">>
     THEN <<message>> ELSE <<>>

BriefingPrefix == <<"*", " ">>

\* what morningBriefing sends: the sunrise sign (written *) and the briefing
BriefingMessages(content) == <<BriefingPrefix \o Trim(content)>>

\* what a cron task sends for the response of the engine: nothing when the
\* invocation failed
CronMessages(kind, response) ==
  IF response.thrown \/ Truthy(response.error) THEN <<>>
  ELSE IF kind = "checkin" THEN CheckinMessages(response.content)
  ELSE BriefingMessages(response.content)

LogCheckin == <<"[", "S", "m", "a", "r", "t", " ", "C", "h", "e", "c", "k", "-", "i", "n", "]", "\n">>

LogBriefing == <<"[", "M", "o", "r", "n", "i", "n", "g", " ", "B", "r", "i", "e", "f", "i", "n", "g", "]", "\n">>

\* the entry appendToTodayLog receives for a sent message
LogEntry(kind, message) ==
  (IF kind = "checkin" THEN LogCheckin ELSE LogBriefing)
  \o (IF kind = "briefing" THEN SubSeq(message, Len(BriefingPrefix) + 1, Len(message))
      ELSE message)

NoOptions == SpawnOptions(<<>>, FALSE, None, "", "", FALSE)

\* the argument list of the invocation task t has made
TaskArgs(t) == BuildArgs(tasks[t].options, AgentTeamsEnabled)

\* a handler or cron task that is not running
IdleTask ==
  [pc |-> "idle", kind |-> "none", older |-> {}, options |-> NoOptions,
   response |-> Response(<<>>, None, None), replies |-> <<>>,
   overtaken |-> None, sawClear |-> FALSE, firstAfterClear |-> FALSE,
   usageAtCall |-> TokenUsage(0, 0, 0, 0, StartTime)]

\* the tasks whose invocation is running
Invoking == {i \in TaskIds : tasks[i].pc = "invoking"}

\* what the engine can do for a user message
EngineOutcomes ==
  {ExitOutcome(1, TxtSure, ErrRate),
   ThrowOutcome(TRUE, ErrEnoent),
   ExitOutcome(0, TxtSure, <<>>),
   ExitOutcome(0, Stdout(TxtSure \o <<" ">> \o TagRemember, SidLabel, Some(TokAbc), <<>>), <<>>)}

TxtDecisionYes == <<"D", "E", "C", "I", "S", "I", "O", "N", ":", " ", "Y", "E", "S", "\n", "M", "E", "S", "S", "A", "G", "E", ":", " ", "g", "y", "m", "\n", "R", "E", "A", "S", "O", "N", ":", " ", "f", "r", "i">>

TxtDecisionNo == <<"D", "E", "C", "I", "S", "I", "O", "N", ":", " ", "N", "O", "\n", "M", "E", "S", "S", "A", "G", "E", ":", " ", "n", "o", "n", "e", "\n", "R", "E", "A", "S", "O", "N", ":", " ", "o", "k">>

\* what the engine can do for a cron task
CronOutcomes ==
  {ExitOutcome(1, <<>>, ErrRate),
   ExitOutcome(0, TxtDecisionNo, <<>>),
   ExitOutcome(0, Stdout(TxtDecisionYes, SidLabel, Some(TokE5), <<>>), <<>>)}

\* config.telegram.userId
AllowedUserId == <<"4", "1">>

\* ctx.from of an update: absent, or a user with a numeric id
NoSender == [some |-> FALSE, id |-> 0]

Sender(id) == [some |-> TRUE, id |-> id]

Senders == {NoSender, Sender(41), Sender(4)}

\* no update has arrived in the step
NoUpdate == [arrived |-> FALSE, from |-> NoSender]

Arrived(from) == [arrived |-> TRUE, from |-> from]

TxtPrivate == <<"T", "h", "i", "s", " ", "b", "o", "t", " ", "i", "s", " ", "p", "r", "i", "v", "a", "t", "e", ".">>

AuthorizedAlways(from) == TRUE

\* the first middleware: ctx.from?.id.toString() is the configured user id
Authorized(from) ==
  LET userId == IF from.some THEN Some(NumToStr(from.id)) ELSE None
  IN userId = Some(AllowedUserId)

CanDispatchAlways == TRUE

\* Bot.start() polls and handles the updates one after the other: the next
\* update's handler starts when the promise of the previous one has settled
CanDispatch == \A h \in HandlerIds : tasks[h].pc = "idle"

\* the slot the next handler or cron task runs in: the first idle one
FreeSlot(t, slots) ==
  /\ t \in slots
  /\ tasks[t].pc = "idle"
  /\ \A g \in slots : g < t => tasks[g].pc # "idle"

\* SessionManager.save
Saved(s) == [exists |-> TRUE, content |-> s]

\* bot.api.sendMessage(userId, text), ctx.reply(text)
Sent(text) == [to |-> "telegram", role |-> "", text |-> text]

\* MemorySystem.saveMessage
SavedMessage(role, content) == [to |-> "messages", role |-> role, text |-> content]

\* Workspace.appendToTodayLog
Logged(entry) == [to |-> "log", role |-> "", text |-> entry]

\* the calls that send the texts
SentAll(texts) == [i \in 1..Len(texts) |-> Sent(texts[i])]

\* stand for the check mark and the arrows of the replies
CheckSign == "+"

RefreshSign == "~"

TxtCleared == <<CheckSign>> \o <<" ", "S", "e", "s", "s", "i", "o", "n", " ", "c", "l", "e", "a", "r", "e", "d", ".", " ", "S", "t", "a", "r", "t", "i", "n", "g", " ", "f", "r", "e", "s", "h", "!">>

TxtCompacting == <<RefreshSign>> \o <<" ", "C", "o", "m", "p", "a", "c", "t", "i", "n", "g", " ", "s", "e", "s", "s", "i", "o", "n", " ", "c", "o", "n", "t", "e", "x", "t", ".", ".", ".">>

TxtCompacted == <<CheckSign>> \o <<" ", "S", "e", "s", "s", "i", "o", "n", " ", "c", "o", "n", "t", "e", "x", "t", " ", "c", "o", "m", "p", "a", "c", "t", "e", "d", ".", " ", "N", "e", "x", "t", " ", "m", "e", "s", "s", "a", "g", "e", " ", "w", "i", "l", "l", " ", "s", "t", "a", "r", "t", " ", "f", "r", "e", "s", "h", ".">>

Commands == {"clear", "compact"}

\* the system before any update: the session created with the defaults
SystemAtRest ==
  /\ state = DefaultState(StartTime)
  /\ sessionFile = [exists |-> FALSE, content |-> DefaultState(StartTime)]
  /\ tasks = [i \in TaskIds |-> IdleTask]
  /\ memory = <<>>
  /\ calls = <<>>
  /\ started = 0
  /\ clearPending = FALSE
  /\ incoming = NoUpdate

\* after main() has initialised the components: the session loaded from
\* session.json or, when there is none, created with the defaults
Init ==
  /\ \/ /\ state = DefaultState(StartTime)
        /\ sessionFile = [exists |-> FALSE, content |-> DefaultState(StartTime)]
     \/ /\ state = [DefaultState(StartTime) EXCEPT !.sessionId = Some(TokD4)]
        /\ sessionFile = Saved(state)
     \/ /\ state = [DefaultState(StartTime) EXCEPT !.currentProject = Some(ProjectId)]
        /\ sessionFile = Saved(state)
  /\ tasks = [i \in TaskIds |-> IdleTask]
  /\ memory = <<>>
  /\ calls = <<>>
  /\ started = 0
  /\ clearPending = FALSE
  /\ incoming = NoUpdate
  /\ spawnCall = NoSpawnCall
  /\ intentCall = NoIntentCall
  /\ checkinCall = NoCheckinCall
  /\ sessionCall = NoSessionCall
  /\ promptCall = NoPromptCall
  /\ lockCall = NoLockCall
  /\ modeCall = NoModeCall
  /\ permCall = NoPermCall
  /\ chunkCall = NoChunkCall
  /\ projectCall = NoProjectCall

harnessVars == <<spawnCall, intentCall, checkinCall, sessionCall, promptCall,
                 lockCall, modeCall,
                 permCall, chunkCall, projectCall>>

\* the middleware calls next() for the update of an authorized sender, and
\* the handler registered for the update runs
Admitted == \E from \in Senders : Authorized(from) /\ incoming' = Arrived(from)

\* the middleware for the update of any other sender: the reply, and the
\* return without next()
TurnedAway(from) ==
  /\ CanDispatch
  /\ ~Authorized(from)
  /\ incoming' = Arrived(from)
  /\ calls' = <<Sent(TxtPrivate)>>
  /\ UNCHANGED <<state, sessionFile, tasks, memory, started, clearPending,
                 harnessVars>>

\* handleText, handlePhoto, handleVoice up to the await of spawn: the user
\* message is saved, the session state read, the arguments built
Dispatch(h, kind) ==
  /\ CanDispatch
  /\ Admitted
  /\ FreeSlot(h, HandlerIds)
  /\ started < MaxInvocations
  /\ tasks' = [tasks EXCEPT ![h] =
       [IdleTask EXCEPT !.pc = "invoking", !.kind = kind,
                        !.older = Invoking,
                        !.options = HandlerOptions(kind, TxtHi, state),
                        !.firstAfterClear = clearPending,
                        !.usageAtCall = state.tokenUsage]]
  /\ calls' = <<SavedMessage("user", MessageLogText(kind, TxtHi))>>
  /\ started' = started + 1
  /\ clearPending' = FALSE
  /\ UNCHANGED <<state, sessionFile, memory, harnessVars>>

\* handleVoice when the voice message cannot be transcribed: a notice, no
\* invocation
VoiceNotTranscribed(h) ==
  /\ CanDispatch
  /\ Admitted
  /\ FreeSlot(h, HandlerIds)
  /\ calls' = <<Sent(ErrVoice)>>
  /\ UNCHANGED <<state, sessionFile, tasks, memory, started, clearPending,
                 harnessVars>>

\* the tasks after task t has written a session id: the invocations that
\* started before t's and are still running have been overtaken
Overtaking(ts, older, sessionId) ==
  [i \in TaskIds |->
     IF ts[i].pc = "invoking" /\ i \in older
     THEN [ts[i] EXCEPT !.overtaken = sessionId] ELSE ts[i]]

\* the await of spawn settles in a message handler: the error notice and the
\* return, or the update of the session id
EngineReturns(h, outcome) ==
  /\ h \in HandlerIds
  /\ tasks[h].pc = "invoking"
  /\ LET response == Spawn(tasks[h].options, outcome)
     IN IF response.thrown
        THEN /\ tasks' = [tasks EXCEPT ![h] = IdleTask]
             /\ calls' = SentAll(CaughtReply(tasks[h].kind))
             /\ UNCHANGED <<state, sessionFile>>
           ELSE IF Truthy(response.error)
           THEN /\ tasks' = [tasks EXCEPT ![h] = IdleTask]
                /\ calls' = SentAll(ErrorReply(response))
                /\ UNCHANGED <<state, sessionFile>>
           ELSE IF Truthy(response.sessionId)
           THEN /\ state' = UpdateSessionId(state, response.sessionId.v, LaterTime)
                /\ sessionFile' = Saved(state')
                /\ tasks' = Overtaking([tasks EXCEPT ![h].pc = "processing",
                                                     ![h].older = {},
                                                     ![h].response = response],
                                       tasks[h].older, response.sessionId)
                /\ calls' = <<>>
           ELSE /\ tasks' = [tasks EXCEPT ![h].pc = "processing",
                                          ![h].older = {},
                                          ![h].response = response]
                /\ calls' = <<>>
                /\ UNCHANGED <<state, sessionFile>>
  /\ incoming' = NoUpdate
  /\ UNCHANGED <<memory, started, clearPending, harnessVars>>

\* processMemoryIntents, saveMessage('assistant', ...) and sendResponse
Deliver(h, fails, pick) ==
  /\ h \in HandlerIds
  /\ tasks[h].pc = "processing"
  /\ LET e == ProcessMemoryIntents(tasks[h].response.content, memory, fails, pick)
     IN IF StoreErrorEscapes(fails)
        THEN /\ tasks' = [tasks EXCEPT ![h] = IdleTask]
             /\ calls' = SentAll(CaughtReply(tasks[h].kind))
             /\ UNCHANGED memory
        ELSE /\ memory' = e.rows
             /\ tasks' = [tasks EXCEPT ![h].pc = "touching",
                                       ![h].replies = SendResponse(e.clean)]
             /\ calls' = <<SavedMessage("assistant", e.clean)>>
                         \o SentAll(SendResponse(e.clean))
  /\ incoming' = NoUpdate
  /\ UNCHANGED <<state, sessionFile, started, clearPending, harnessVars>>

\* session.touch() at the end of a message handler
TouchSession(h) ==
  /\ h \in HandlerIds
  /\ tasks[h].pc = "touching"
  /\ state' = Touch(state, LaterTime)
  /\ sessionFile' = Saved(state')
  /\ tasks' = [tasks EXCEPT ![h] = IdleTask]
  /\ calls' = <<>>
  /\ incoming' = NoUpdate
  /\ UNCHANGED <<memory, started, clearPending, harnessVars>>

\* CommandHandler.handleClear and handleCompact: session.clear() and the
\* replies
HandleClear(command) ==
  /\ CanDispatch
  /\ Admitted
  /\ state' = Clear(state, LaterTime)
  /\ sessionFile' = Saved(state')
  /\ clearPending' = TRUE
  /\ tasks' = [i \in TaskIds |->
                 IF tasks[i].pc = "invoking"
                 THEN [tasks[i] EXCEPT !.sawClear = TRUE] ELSE tasks[i]]
  /\ calls' = IF command = "clear" THEN <<Sent(TxtCleared)>>
              ELSE <<Sent(TxtCompacting), Sent(TxtCompacted)>>
  /\ UNCHANGED <<memory, started, harnessVars>>

\* smartCheckin in the quiet hours: it returns at once
CheckinSkipped(c, hour) ==
  /\ FreeSlot(c, CronIds)
  /\ QuietHours(hour)
  /\ calls' = <<>>
  /\ incoming' = NoUpdate
  /\ UNCHANGED <<state, sessionFile, tasks, memory, started, clearPending,
                 harnessVars>>

\* a cron task up to the await of spawn: the prompt is built and the engine
\* invoked with it alone
CronStarts(c, kind) ==
  /\ FreeSlot(c, CronIds)
  /\ started < MaxInvocations
  /\ tasks' = [tasks EXCEPT ![c] =
       [IdleTask EXCEPT !.pc = "invoking", !.kind = kind,
                        !.older = Invoking, !.options = CronOptions(kind),
                        !.usageAtCall = state.tokenUsage]]
  /\ calls' = <<>>
  /\ started' = started + 1
  /\ incoming' = NoUpdate
  /\ UNCHANGED <<state, sessionFile, memory, clearPending, harnessVars>>

\* smartCheckin outside the quiet hours
CheckinStarts(c, hour) == ~QuietHours(hour) /\ CronStarts(c, "checkin")

\* morningBriefing
BriefingStarts(c) == CronStarts(c, "briefing")

\* the await of spawn settles in a cron task: the message, if there is one to
\* send, is sent
CronReturns(c, outcome) ==
  /\ c \in CronIds
  /\ tasks[c].pc = "invoking"
  /\ LET response == Spawn(tasks[c].options, outcome)
         sent == CronMessages(tasks[c].kind, response)
     IN /\ tasks' = [tasks EXCEPT ![c] =
             IF sent = <<>> THEN IdleTask
             ELSE [@ EXCEPT !.pc = "logging", !.older = {},
                            !.response = response, !.replies = sent]]
        /\ calls' = SentAll(sent)
  /\ incoming' = NoUpdate
  /\ UNCHANGED <<state, sessionFile, memory, started, clearPending,
                 harnessVars>>

\* appendToTodayLog at the end of a cron task that has sent a message
CronLogs(c) ==
  /\ c \in CronIds
  /\ tasks[c].pc = "logging"
  /\ tasks' = [tasks EXCEPT ![c] = IdleTask]
  /\ calls' = <<>>
  /\ incoming' = NoUpdate
  /\ UNCHANGED <<state, sessionFile, memory, started, clearPending,
                 harnessVars>>

Next ==
  \/ \E h \in HandlerIds, kind \in MessageKinds : Dispatch(h, kind)
  \/ \E h \in HandlerIds : VoiceNotTranscribed(h)
  \/ \E from \in Senders : TurnedAway(from)
  \/ \E h \in HandlerIds, outcome \in EngineOutcomes : EngineReturns(h, outcome)
  \/ \E h \in HandlerIds, fails \in StoreFailures, pick \in Picks(memory) :
       Deliver(h, fails, pick)
  \/ \E h \in HandlerIds : TouchSession(h)
  \/ \E command \in Commands : HandleClear(command)
  \/ \E c \in CronIds, hour \in Hours : CheckinSkipped(c, hour)
  \/ \E c \in CronIds, hour \in Hours : CheckinStarts(c, hour)
  \/ \E c \in CronIds : BriefingStarts(c)
  \/ \E c \in CronIds, outcome \in CronOutcomes : CronReturns(c, outcome)
  \/ \E c \in CronIds : CronLogs(c)

Spec == Init /\ [][Next]_vars

\* ------------------------------------------------------------------------
\* Properties of the handlers and the session
\* ------------------------------------------------------------------------

\* the handlers that are in their code
Running == {h \in HandlerIds : tasks[h].pc # "idle"}

\* C1: the engine invocations for user messages are serialized: no two
\* message handlers are between their read of the session token and their
\* write-back at once, and the token a handler has passed to the engine is the
\* one the session holds while its invocation runs
C1_Serialized ==
  /\ \A g \in Running, h \in Running : g = h
  /\ \A h \in HandlerIds :
       tasks[h].pc = "invoking" =>
         /\ tasks[h].options.sessionId = state.sessionId
         /\ tasks[h].options.resume = Truthy(state.sessionId)

\* a message handler is invoking the engine with the token an earlier
\* message's invocation has written back
C1_Witness ==
  \E h \in HandlerIds :
    /\ tasks[h].pc = "invoking"
    /\ tasks[h].options.resume
    /\ tasks[h].options.sessionId = Some(TokAbc)
    /\ state.sessionId = Some(TokAbc)

FreshAfterClear ==
  \A h \in HandlerIds :
    (tasks[h].pc = "invoking" /\ tasks[h].firstAfterClear) =>
      /\ ~tasks[h].options.resume
      /\ tasks[h].options.sessionId = None
      /\ \A i \in 1..Len(TaskArgs(h)) : TaskArgs(h)[i] # Word("--resume")

\* the session's token leaves null only at the return of an invocation that
\* was not running when clear() last ran
NullUntilNewToken ==
  (state.sessionId = None /\ state'.sessionId # None) =>
    \E t \in TaskIds :
      /\ tasks[t].pc = "invoking"
      /\ tasks'[t].pc # "invoking"
      /\ ~tasks[t].sawClear

\* C3: after clear() the next invocation for a user message is made without
\* the resume flag and without a token, and the session's token stays null
\* until an invocation started after the clear returns one, whatever the
\* invocations that were running at the clear return
C3_ClearStartsFresh == []FreshAfterClear /\ [][NullUntilNewToken]_vars

\* an invocation that was running at the clear has returned a token after
\* it, the session's token is still null and the first message after the clear
\* is invoking the engine
C3_Witness ==
  /\ state.sessionId = None
  /\ \E c \in CronIds :
       /\ tasks[c].pc = "logging"
       /\ tasks[c].sawClear
       /\ tasks[c].response.sessionId = Some(TokE5)
  /\ \E h \in HandlerIds :
       /\ tasks[h].pc = "invoking"
       /\ tasks[h].firstAfterClear

\* the calls are one error notice to the user
IsErrorNotice(cs) ==
  /\ Len(cs) = 1
  /\ cs[1].to = "telegram"
  /\ Len(cs[1].text) > Len(ErrPrefix)
  /\ SubSeq(cs[1].text, 1, Len(ErrPrefix)) = ErrPrefix

\* C8: when the invocation for a user message returns an error, the handler
\* ends with the session's token and usage counters as they were before the
\* call, and with an error notice sent to the user
C8_ErrorLeavesSession ==
  [][\A h \in HandlerIds :
       (tasks[h].pc = "invoking" /\ tasks'[h].pc = "idle") =>
         /\ state'.sessionId = tasks[h].options.sessionId
         /\ state'.tokenUsage = tasks[h].usageAtCall
         /\ IsErrorNotice(calls')]_vars

\* the invocation of a second message has failed: the user has the notice and
\* the session the token the first message's invocation returned
C8_Witness ==
  /\ calls = <<Sent(ErrPrefix \o ErrRate)>>
  /\ Running = {}
  /\ state.sessionId = Some(TokAbc)

\* C9 as the claim states it: for a stdout of reply text, one REMEMBER tag and
\* a Session ID line, the text delivered is the reply text alone, the fact of
\* the tag is inserted and the session's token is the one of the line
C9_ReplyTextAlone ==
  \A h \in HandlerIds :
    (tasks[h].pc = "touching" /\ Contains(tasks[h].response.content, TagRemember)) =>
      /\ tasks[h].replies = <<TxtSure>>
      /\ state.sessionId = Some(TokAbc)

\* ------------------------------------------------------------------------
\* ClaudeSpawner.spawn on its own
\* ------------------------------------------------------------------------

SpawnOutcomes ==
  {ThrowOutcome(TRUE, ErrEnoent), ThrowOutcome(FALSE, <<>>)}
  \cup {ExitOutcome(code, <<>>, stderr) : code \in ExitCodes, stderr \in {<<>>, ErrRate}}

SpawnCallInputs ==
  {[NoSpawnCall EXCEPT
      !.phase = "called",
      !.options = SpawnOptions(TxtHi, resume, sessionId, model, mode, teamMode),
      !.agentTeams = agentTeams,
      !.reply = reply,
      !.marker = marker,
      !.outcome = [outcome EXCEPT !.stdout =
                     IF outcome.threw THEN <<>>
                     ELSE Stdout(reply, label, marker, post)]] :
     resume \in BOOLEAN, sessionId \in {None, Some(TokD4)},
     model \in {"", "sonnet"}, mode \in {"", "default", "plan"},
     teamMode \in BOOLEAN, agentTeams \in BOOLEAN,
     reply \in {<<>>, TxtSure, TxtSure \o <<" ">> \o TagRemember},
     label \in {SidLabel, SidLabelLower},
     marker \in {None, Some(TokAbc), Some(TokE5)},
     post \in {<<>>, <<"\n">>},
     outcome \in SpawnOutcomes}

InitSpawn ==
  /\ SystemAtRest
  /\ spawnCall \in SpawnCallInputs
  /\ intentCall = NoIntentCall
  /\ checkinCall = NoCheckinCall
  /\ sessionCall = NoSessionCall
  /\ promptCall = NoPromptCall
  /\ lockCall = NoLockCall
  /\ modeCall = NoModeCall
  /\ permCall = NoPermCall
  /\ chunkCall = NoChunkCall
  /\ projectCall = NoProjectCall

\* ClaudeSpawner.spawn: builds the arguments, runs the child, maps the outcome
SpawnCallReturns ==
  /\ spawnCall.phase = "called"
  /\ spawnCall' = [spawnCall EXCEPT
       !.phase = "returned",
       !.args = BuildArgs(spawnCall.options, spawnCall.agentTeams),
       !.result = Spawn(spawnCall.options, spawnCall.outcome)]
  /\ UNCHANGED <<systemVars, intentCall, checkinCall, sessionCall, promptCall,
                 lockCall, modeCall,
                 permCall, chunkCall, projectCall>>

NextSpawn == SpawnCallReturns

SpecSpawn == InitSpawn /\ [][NextSpawn]_vars

\* ------------------------------------------------------------------------
\* Properties of ClaudeSpawner.spawn and buildArgs
\* ------------------------------------------------------------------------

SpawnSucceeded ==
  /\ spawnCall.phase = "returned"
  /\ ~spawnCall.outcome.threw
  /\ spawnCall.outcome.exitCode = 0

\* C4: a successful invocation made with continuation token T1 reports T1 when
\* stdout has no "Session ID: <token>" line, and the token of that line when
\* stdout has one.
C4_StickyToken ==
  SpawnSucceeded =>
    /\ (~spawnCall.marker.some /\ spawnCall.options.sessionId.some)
         => /\ spawnCall.result.sessionId = spawnCall.options.sessionId
            /\ Truthy(spawnCall.result.sessionId)
    /\ spawnCall.marker.some
         => spawnCall.result.sessionId = spawnCall.marker

C4_Witness ==
  /\ SpawnSucceeded
  /\ ~spawnCall.marker.some
  /\ spawnCall.reply # <<>>
  /\ spawnCall.options.sessionId = Some(TokD4)
  /\ spawnCall.result.sessionId = Some(TokD4)

\* positions of the argument list that hold the word w
ArgPositions(args, w) == {i \in 1..Len(args) : args[i] = Word(w)}

\* C5: the argument list has "--resume <token>" exactly when resume is true
\* and a token is present; the token appears nowhere otherwise; "-p <prompt>"
\* and "--output-format text" are always there.
C5_ResumeWithTokenOnly ==
  spawnCall.phase = "returned" =>
    LET args == spawnCall.args
        options == spawnCall.options
        wanted == options.resume /\ options.sessionId.some
    IN /\ Cardinality(ArgPositions(args, "--resume")) = (IF wanted THEN 1 ELSE 0)
       /\ \A i \in ArgPositions(args, "--resume") :
            i < Len(args) /\ args[i + 1] = Text(options.sessionId.v)
       /\ ~wanted => \A i \in 1..Len(args) : args[i].txt \notin Tokens
       /\ args[1] = Word("-p") /\ args[2] = Text(options.prompt)
       /\ \E i \in ArgPositions(args, "--output-format") :
            i < Len(args) /\ args[i + 1] = Word("text")

C5_Witness ==
  /\ spawnCall.phase = "returned"
  /\ ~spawnCall.options.resume
  /\ spawnCall.options.sessionId = Some(TokD4)
  /\ ArgPositions(spawnCall.args, "--resume") = {}

\* the decimal text of each exit code, as the error message shows it
ExitCodeText ==
  [code \in ExitCodes |->
     CASE code = 0 -> <<"0">>
       [] code = 1 -> <<"1">>
       [] code = 2 -> <<"2">>
       [] code = 127 -> <<"1", "2", "7">>]

SpawnExitedNonZero ==
  /\ spawnCall.phase = "returned"
  /\ ~spawnCall.outcome.threw
  /\ spawnCall.outcome.exitCode # 0

\* C6: for a non-zero exit code N the result has content '', no sessionId, and
\* error = stderr, or "Claude exited with code N" when stderr is empty.
C6_NonZeroExitIsError ==
  SpawnExitedNonZero =>
    /\ spawnCall.result.content = <<>>
    /\ spawnCall.result.sessionId = None
    /\ spawnCall.result.error =
         (IF spawnCall.outcome.stderr # <<>>
          THEN Some(spawnCall.outcome.stderr)
          ELSE Some(ErrExited \o ExitCodeText[spawnCall.outcome.exitCode]))

C6_Witness ==
  /\ SpawnExitedNonZero
  /\ spawnCall.outcome.exitCode = 127
  /\ spawnCall.outcome.stderr = <<>>
  /\ spawnCall.marker.some
  /\ Contains(spawnCall.outcome.stdout, TxtSure)
  /\ spawnCall.result.content = <<>>

\* C7: spawn never rejects; an exception raised while starting the child or
\* reading its output becomes a result with content '' and a non-empty error.
C7_SpawnNeverThrows ==
  spawnCall.phase = "returned" =>
    /\ ~spawnCall.result.thrown
    /\ spawnCall.outcome.threw =>
         /\ spawnCall.result.content = <<>>
         /\ Truthy(spawnCall.result.error)

C7_Witness ==
  /\ spawnCall.phase = "returned"
  /\ spawnCall.outcome.threw
  /\ ~spawnCall.outcome.isError
  /\ spawnCall.result.error = Some(ErrUnknown)

\* ------------------------------------------------------------------------
\* MemorySystem.processMemoryIntents on its own
\* ------------------------------------------------------------------------

\* the pieces a response is made of
Fragments == {TxtSure, <<" ">>, TagRemember, TagGoal, TagGoalPlain, TagDone}

\* longest response, in pieces
MaxParts == 3

RECURSIVE Concat(_)
Concat(parts) == IF parts = <<>> THEN <<>> ELSE Head(parts) \o Concat(Tail(parts))

Count(parts, x) == Cardinality({i \in 1..Len(parts) : parts[i] = x})

\* an open goal stored before the response arrives
TxtOldGoal == <<"G", "y", "m", " ", "d", "a", "i", "l", "y">>

RowsBefore == {<<>>, <<MemoryRow(1, "goal", TxtOldGoal, None)>>}

\* the store calls that fail: none, one of them, all of them
FailureSets == StoreFailures \cup {{k} : k \in 1..MaxStoreCalls}

IntentCallInputs ==
  {[NoIntentCall EXCEPT !.phase = "called", !.parts = parts,
                        !.response = Concat(parts), !.rowsBefore = rows,
                        !.fails = fails, !.pick = pick] :
     parts \in UNION {[1..n -> Fragments] : n \in 1..MaxParts},
     rows \in RowsBefore,
     fails \in FailureSets,
     pick \in 1..(MaxParts + 1)}

InitIntents ==
  /\ SystemAtRest
  /\ spawnCall = NoSpawnCall
  /\ intentCall \in IntentCallInputs
  /\ checkinCall = NoCheckinCall
  /\ sessionCall = NoSessionCall
  /\ promptCall = NoPromptCall
  /\ lockCall = NoLockCall
  /\ modeCall = NoModeCall
  /\ permCall = NoPermCall
  /\ chunkCall = NoChunkCall
  /\ projectCall = NoProjectCall

\* MemorySystem.processMemoryIntents
IntentsProcessed ==
  /\ intentCall.phase = "called"
  /\ intentCall' = [intentCall EXCEPT
       !.phase = "returned",
       !.effect = ProcessMemoryIntents(intentCall.response, intentCall.rowsBefore,
                                       intentCall.fails, intentCall.pick)]
  /\ UNCHANGED <<systemVars, spawnCall, checkinCall, sessionCall, promptCall,
                 lockCall, modeCall,
                 permCall, chunkCall, projectCall>>

NextIntents == IntentsProcessed

SpecIntents == InitIntents /\ [][NextIntents]_vars

\* a response with one REMEMBER tag, one GOAL tag with a deadline and one DONE
\* tag naming that goal has been processed
ThreeTagsProcessed ==
  /\ intentCall.phase = "returned"
  /\ Count(intentCall.parts, TagRemember) = 1
  /\ Count(intentCall.parts, TagGoal) = 1
  /\ Count(intentCall.parts, TagDone) = 1
  /\ Count(intentCall.parts, TagGoalPlain) = 0

\* C10: such a response comes back without any of the three tags; exactly one
\* fact insert, then one goal insert, then one goal completion are issued, and
\* the completion's lookup finds the goal the GOAL tag has just written.
C10_TagsInOrder ==
  ThreeTagsProcessed =>
    LET e == intentCall.effect
        before == Len(intentCall.rowsBefore)
        newGoal == before + (IF 1 \in intentCall.fails THEN 1 ELSE 2)
    IN /\ ~Contains(e.clean, TagRemember)
       /\ ~Contains(e.clean, TagGoal)
       /\ ~Contains(e.clean, TagDone)
       /\ Len(e.calls) = 3
       /\ e.calls[1] = StoreCall("insertFact", TxtCallMom, None, {})
       /\ e.calls[2] = StoreCall("insertGoal", TxtGym, Some(TxtFri), {})
       /\ e.calls[3].op = "completeGoal" /\ e.calls[3].content = TxtGym
       /\ 2 \notin intentCall.fails =>
            /\ newGoal \in e.calls[3].candidates
            /\ intentCall.effect.rows[newGoal].content = TxtGym
            /\ intentCall.effect.rows[newGoal].deadline = Some(TxtFri)

C10_Witness ==
  /\ ThreeTagsProcessed
  /\ intentCall.fails = {}
  /\ intentCall.rowsBefore = <<>>
  /\ intentCall.parts[1] = TagDone
  /\ intentCall.effect.rows[2].type = "completed_goal"

\* a response with one DONE tag has been processed with the store up
DoneTagProcessed ==
  /\ intentCall.phase = "returned"
  /\ Count(intentCall.parts, TagDone) = 1
  /\ intentCall.fails = {}

\* the goals of the table, open or completed, whose content has the search
\* text of the DONE tag in it, in any case
GymGoals(rows) ==
  {i \in 1..Len(rows) :
     /\ rows[i].type \in {"goal", "completed_goal"}
     /\ Contains(LowerStr(rows[i].content), TxtGym)}

\* the completion has added and removed no row
SameRows ==
  Len(intentCall.effect.rows) =
    Len(intentCall.rowsBefore) + Count(intentCall.parts, TagRemember)
    + Count(intentCall.parts, TagGoal) + Count(intentCall.parts, TagGoalPlain)

\* C29: completeGoal marks as completed exactly one open goal whose content
\* has the search text in it, the most recently created one when several
\* have; it adds and removes no row, and changes nothing when none has.
C29_CompleteGoal ==
  DoneTagProcessed =>
    LET rows == intentCall.effect.rows
        matching == GymGoals(rows)
        completed == {i \in 1..Len(rows) : rows[i].type = "completed_goal"}
    IN /\ SameRows
       /\ completed = IF matching = {} THEN {}
                      ELSE {CHOOSE i \in matching : \A j \in matching : j <= i}

\* ------------------------------------------------------------------------
\* CronScheduler.smartCheckin on the engine's answer
\* ------------------------------------------------------------------------

LabelDecision == <<"D", "E", "C", "I", "S", "I", "O", "N", ":", " ">>

LabelMessage == <<"M", "E", "S", "S", "A", "G", "E", ":", " ">>

LabelReason == <<"R", "E", "A", "S", "O", "N", ":", " ">>

TxtYes == <<"Y", "E", "S">>

\* the values the engine writes after DECISION:
DecisionValues ==
  {TxtYes, <<"N", "O">>, <<"y", "e", "s">>, <<"M", "A", "Y", "B", "E">>,
   <<"Y", "E", "S", "T", "E", "R", "D", "A", "Y">>, <<>>}

TxtPing == <<"p", "i", "n", "g">>

TxtNone == <<"n", "o", "n", "e">>

\* the lines of an answer, joined with newlines
RECURSIVE JoinLines(_)
JoinLines(lines) ==
  IF lines = <<>> THEN <<>>
  ELSE IF Len(lines) = 1 THEN lines[1]
  ELSE lines[1] \o <<"\n">> \o JoinLines(Tail(lines))

Line(label, value) == IF value.some THEN <<label \o value.v>> ELSE <<>>

\* the answer made of a decision line, a message line and a reason line, each
\* of them present or not
Answer(decision, message, reason) ==
  JoinLines(Line(LabelDecision, decision) \o Line(LabelMessage, message)
            \o Line(LabelReason, reason))

CheckinCallInputs ==
  {[NoCheckinCall EXCEPT !.phase = "triggered", !.hour = hour,
                         !.decision = decision,
                         !.message = message, !.reason = reason,
                         !.outcome = outcome] :
     hour \in Hours,
     decision \in {None} \cup {Some(v) : v \in DecisionValues},
     message \in {None, Some(<<>>), Some(TxtPing), Some(TxtNone)},
     reason \in {None, Some(<<"o", "k">>)},
     outcome \in {ExitOutcome(0, <<>>, <<>>), ExitOutcome(1, <<>>, ErrRate),
                  ThrowOutcome(TRUE, ErrEnoent)}}

InitCheckin ==
  /\ SystemAtRest
  /\ spawnCall = NoSpawnCall
  /\ intentCall = NoIntentCall
  /\ checkinCall \in CheckinCallInputs
  /\ sessionCall = NoSessionCall
  /\ promptCall = NoPromptCall
  /\ lockCall = NoLockCall
  /\ modeCall = NoModeCall
  /\ permCall = NoPermCall
  /\ chunkCall = NoChunkCall
  /\ projectCall = NoProjectCall

\* the cron trigger of smartCheckin: the return in the quiet hours, or the
\* context, the prompt and the call of spawn
CheckinTriggered ==
  /\ checkinCall.phase = "triggered"
  /\ checkinCall' =
       IF QuietHours(checkinCall.hour)
       THEN [checkinCall EXCEPT !.phase = "skipped"]
       ELSE [checkinCall EXCEPT !.phase = "called", !.invoked = TRUE]
  /\ UNCHANGED <<systemVars, spawnCall, intentCall, sessionCall, promptCall,
                 lockCall, modeCall,
                 permCall, chunkCall, projectCall>>

\* smartCheckin from the return of spawn on: the answer is parsed and the
\* message sent and logged, or not
CheckinDecides ==
  /\ checkinCall.phase = "called"
  /\ LET outcome == IF checkinCall.outcome.threw THEN checkinCall.outcome
                    ELSE [checkinCall.outcome EXCEPT !.stdout =
                            Answer(checkinCall.decision, checkinCall.message,
                                   checkinCall.reason)]
         sent == CronMessages("checkin", Spawn(NoOptions, outcome))
     IN checkinCall' = [checkinCall EXCEPT
          !.phase = "returned",
          !.outcome = outcome,
          !.sent = sent,
          !.logged = [i \in 1..Len(sent) |-> LogEntry("checkin", sent[i])]]
  /\ UNCHANGED <<systemVars, spawnCall, intentCall, sessionCall, promptCall,
                 lockCall, modeCall,
                 permCall, chunkCall, projectCall>>

NextCheckin == CheckinTriggered \/ CheckinDecides

SpecCheckin == InitCheckin /\ [][NextCheckin]_vars

\* C11: a check-in message is sent only when the value of the decision line
\* is exactly YES; for an empty answer, an answer without a decision line, a
\* decision NO or any other decision value nothing is sent.
C11_FailClosed ==
  (checkinCall.phase = "returned" /\ checkinCall.sent # <<>>)
    => checkinCall.decision = Some(TxtYes)

\* the engine has answered with a decision YES
AnsweredYes ==
  /\ checkinCall.phase = "returned"
  /\ ~checkinCall.outcome.threw
  /\ checkinCall.outcome.exitCode = 0
  /\ checkinCall.decision = Some(TxtYes)

\* C26: a check-in triggered at an hour from 23 on or before 8 has made no
\* engine invocation and has sent nothing: it returns at the trigger.
C26_QuietHours ==
  (checkinCall.phase # "triggered" /\ (checkinCall.hour >= 23 \/ checkinCall.hour < 8))
    => /\ checkinCall.phase = "skipped"
       /\ ~checkinCall.invoked
       /\ checkinCall.sent = <<>>

\* a check-in triggered at 7 has returned without an invocation
C26_Witness ==
  /\ checkinCall.phase = "skipped"
  /\ checkinCall.hour = 7
  /\ ~checkinCall.invoked

\* C28: a check-in decided YES whose answer has no MESSAGE field, an empty
\* one, or the placeholder none sends nothing and logs nothing.
C28_NoMessageNoSend ==
  (AnsweredYes /\ checkinCall.message \in {None, Some(<<>>), Some(TxtNone)})
    => checkinCall.sent = <<>> /\ checkinCall.logged = <<>>

\* ------------------------------------------------------------------------
\* SessionManager under direct calls
\* ------------------------------------------------------------------------

\* mutator calls of one run of the model
MaxMutations == 3

TxtProject == <<"p", "1">>

\* the mutator calls made
SessionOps ==
  {SessionOp("updateSessionId", Some(TokAbc), "", 0, 0, FALSE),
   SessionOp("setProject", Some(TxtProject), "", 0, 0, FALSE),
   SessionOp("setPermissionMode", None, "plan", 0, 0, FALSE),
   SessionOp("setModel", None, "sonnet", 0, 0, FALSE),
   SessionOp("clear", None, "", 0, 0, FALSE),
   SessionOp("touch", None, "", 0, 0, FALSE),
   SessionOp("setThinkingLevel", None, "high", 0, 0, FALSE),
   SessionOp("setVerbose", None, "", 0, 0, TRUE),
   SessionOp("recordUsage", None, "", 100, 50, TRUE),
   SessionOp("recordUsage", None, "", 10, 5, FALSE)}

\* a SessionManager that has just been constructed (this.state is null; the
\* variable state counts from load() on), with or without a session.json of
\* an earlier run
InitSession ==
  /\ state = DefaultState(StartTime)
  /\ sessionFile \in {[exists |-> FALSE, content |-> DefaultState(StartTime)],
                      Saved([DefaultState(StartTime) EXCEPT !.sessionId = Some(TokD4)])}
  /\ tasks = [i \in TaskIds |-> IdleTask]
  /\ memory = <<>>
  /\ calls = <<>>
  /\ started = 0
  /\ clearPending = FALSE
  /\ incoming = NoUpdate
  /\ spawnCall = NoSpawnCall
  /\ intentCall = NoIntentCall
  /\ checkinCall = NoCheckinCall
  /\ sessionCall = NoSessionCall
  /\ promptCall = NoPromptCall
  /\ lockCall = NoLockCall
  /\ modeCall = NoModeCall
  /\ permCall = NoPermCall
  /\ chunkCall = NoChunkCall
  /\ projectCall = NoProjectCall

sessionRest == <<tasks, memory, calls, started, clearPending, incoming,
                 spawnCall, intentCall, checkinCall, promptCall, lockCall, modeCall,
                 permCall, chunkCall, projectCall>>

\* SessionManager.load: the parsed file or, when it cannot be read, the defaults
SessionLoads ==
  /\ ~sessionCall.loaded
  /\ state' = IF sessionFile.exists THEN sessionFile.content
              ELSE DefaultState(StartTime)
  /\ sessionCall' = [sessionCall EXCEPT !.loaded = TRUE]
  /\ UNCHANGED <<sessionFile, sessionRest>>

\* a mutator up to the await of writeFile: nothing when the state is null,
\* else the field is set and the whole state handed to writeFile
SessionMutates(call) ==
  /\ sessionCall.issued < MaxMutations
  /\ IF sessionCall.loaded
     THEN /\ state' = Mutate(state, call, LaterTime)
          /\ sessionCall' = [sessionCall EXCEPT
               !.issued = @ + 1, !.applied = @ + 1, !.last = call,
               !.pending = @ \cup {[id |-> sessionCall.issued + 1,
                                    content |-> state']}]
     ELSE /\ sessionCall' = [sessionCall EXCEPT !.issued = @ + 1, !.last = call]
          /\ UNCHANGED state
  /\ UNCHANGED <<sessionFile, sessionRest>>

\* a writeFile settles, in any order among those pending: the file holds what
\* it was given, or the write fails and the mutator's promise rejects
WriteSettles(w, ok) ==
  /\ w \in sessionCall.pending
  /\ sessionFile' = IF ok THEN Saved(w.content) ELSE sessionFile
  /\ sessionCall' = [sessionCall EXCEPT
       !.pending = @ \ {w},
       !.failed = @ \/ ~ok,
       !.rejected = @ \/ ~ok]
  /\ UNCHANGED <<state, sessionRest>>

\* SessionManager.getState
SessionGetState ==
  /\ sessionCall' = [sessionCall EXCEPT !.read =
       [op |-> "getState", unloaded |-> ~sessionCall.loaded,
        threw |-> ~sessionCall.loaded, usage |-> NoSessionRead.usage]]
  /\ UNCHANGED <<state, sessionFile, sessionRest>>

\* SessionManager.getTokenUsage
SessionGetTokenUsage ==
  /\ sessionCall' = [sessionCall EXCEPT !.read =
       [op |-> "getTokenUsage", unloaded |-> ~sessionCall.loaded,
        threw |-> FALSE,
        usage |-> IF sessionCall.loaded THEN GetTokenUsage(state)
                  ELSE UsageReport(0, 0, 0, 0, 0, 0)]]
  /\ UNCHANGED <<state, sessionFile, sessionRest>>

NextSession ==
  \/ SessionLoads
  \/ \E call \in SessionOps : SessionMutates(call)
  \/ \E w \in sessionCall.pending, ok \in BOOLEAN : WriteSettles(w, ok)
  \/ SessionGetState
  \/ SessionGetTokenUsage

SpecSession == InitSession /\ [][NextSession]_vars

\* a step that establishes a new continuation token: the stored token of a
\* loaded session changes to a different non-null value
NewTokenEstablished ==
  /\ sessionCall.loaded
  /\ state'.sessionId # state.sessionId
  /\ state'.sessionId.some

\* C12: whenever a new continuation token is established, sessionInput and
\* sessionOutput are reset: they hold no usage of the session before.
C12_NewTokenResetsSessionUsage ==
  [][NewTokenEstablished =>
       /\ state'.tokenUsage.sessionInput = 0
       /\ state'.tokenUsage.sessionOutput = 0]_vars

\* a step that is a call of recordUsage on a loaded session
RecordUsageCalled ==
  /\ sessionCall'.applied = sessionCall.applied + 1
  /\ sessionCall'.last.op = "recordUsage"

\* C13: recordUsage(i, o, newSession) adds i and o to the lifetime counters
\* and sets the session counters to (i, o) when newSession is true, to
\* (previous + i, previous + o) otherwise; recordUsage(10, 5, false) right
\* after recordUsage(100, 50, true) leaves the session counters at (110, 55).
C13_RecordUsage ==
  [][RecordUsageCalled =>
       LET call == sessionCall'.last
           before == state.tokenUsage
           after == state'.tokenUsage
       IN /\ after.totalInput = before.totalInput + call.tokensIn
          /\ after.totalOutput = before.totalOutput + call.tokensOut
          /\ after.sessionInput =
               (IF call.flag THEN 0 ELSE before.sessionInput) + call.tokensIn
          /\ after.sessionOutput =
               (IF call.flag THEN 0 ELSE before.sessionOutput) + call.tokensOut
          /\ (sessionCall.applied > 0
              /\ sessionCall.last = SessionOp("recordUsage", None, "", 100, 50, TRUE)
              /\ call = SessionOp("recordUsage", None, "", 10, 5, FALSE))
             => /\ after.sessionInput = 110
                /\ after.sessionOutput = 55
                /\ after.totalInput = before.totalInput + 10
                /\ before.totalInput >= 100]_vars

\* recordUsage(100, 50, true) and then recordUsage(10, 5, false) have run
C13_Witness ==
  /\ sessionCall.loaded
  /\ sessionCall.last = SessionOp("recordUsage", None, "", 10, 5, FALSE)
  /\ state.tokenUsage.sessionInput = 110
  /\ state.tokenUsage.sessionOutput = 55
  /\ state.tokenUsage.totalInput = 110
  /\ state.tokenUsage.totalOutput = 55

\* C14: once all the mutators called on a loaded session have completed (no
\* write is pending, none has failed), the session file holds exactly the
\* in-memory state.
C14_FileHoldsState ==
  (/\ sessionCall.loaded
   /\ sessionCall.applied > 0
   /\ sessionCall.pending = {}
   /\ ~sessionCall.failed)
    => sessionFile = Saved(state)

\* C15: when the write of the session file fails in a mutator, the mutator
\* still completes without throwing to its caller.
C15_FailedWriteDoesNotThrow ==
  sessionCall.failed => ~sessionCall.rejected

\* C16: every read of the session state before initialisation fails with an
\* error, getState as well as getTokenUsage.
C16_ReadBeforeInitThrows ==
  (sessionCall.read.op # "none" /\ sessionCall.read.unloaded)
    => sessionCall.read.threw

\* a step in which a mutator has run on a loaded session
MutatorApplied == sessionCall'.applied = sessionCall.applied + 1

\* the session counters are within the lifetime counters
UsageWithinTotals ==
  /\ state.tokenUsage.sessionInput <= state.tokenUsage.totalInput
  /\ state.tokenUsage.sessionOutput <= state.tokenUsage.totalOutput

\* the lifetime counters do not decrease, and only recordUsage changes them
TotalsKept ==
  /\ state'.tokenUsage.totalInput >= state.tokenUsage.totalInput
  /\ state'.tokenUsage.totalOutput >= state.tokenUsage.totalOutput
  /\ (MutatorApplied /\ sessionCall'.last.op # "recordUsage")
       => /\ state'.tokenUsage.totalInput = state.tokenUsage.totalInput
          /\ state'.tokenUsage.totalOutput = state.tokenUsage.totalOutput

\* C31: from the default state, under any sequence of mutators with
\* non-negative usage values, totalInput and totalOutput never decrease and
\* are unchanged by clear() and by every setter, and sessionInput <=
\* totalInput and sessionOutput <= totalOutput hold in every reachable state.
C31_LifetimeCounters == []UsageWithinTotals /\ [][TotalsKept]_vars

\* clear() has run on a session that had recorded usage in two sessions
C31_Witness ==
  /\ sessionCall.loaded
  /\ sessionCall.last.op = "clear"
  /\ state.tokenUsage.totalInput = 110
  /\ state.tokenUsage.totalOutput = 55
  /\ state.tokenUsage.sessionInput = 100

\* the fields of SessionState a mutator of the claim may change
NamedFields(op) ==
  CASE op = "setProject" -> {"currentProject"}
    [] op = "setPermissionMode" -> {"permissionMode"}
    [] op = "setModel" -> {"model"}
    [] op = "setThinkingLevel" -> {"thinkingLevel"}
    [] op = "setVerbose" -> {"verbose"}
    [] op = "clear" -> {"sessionId", "lastActivity"}
    [] op = "updateSessionId" -> {"sessionId", "lastActivity"}
    [] op = "touch" -> {"lastActivity"}
    [] OTHER -> DOMAIN state

\* a setter has stored its argument in the field it names
ArgumentStored(call) ==
  CASE call.op = "setProject" -> state'.currentProject = call.text
    [] call.op = "setPermissionMode" -> state'.permissionMode = call.word
    [] call.op = "setModel" -> state'.model = call.word
    [] call.op = "setThinkingLevel" -> state'.thinkingLevel = call.word
    [] call.op = "setVerbose" -> state'.verbose = call.flag
    [] OTHER -> TRUE

\* C32: setProject, setPermissionMode, setModel, setThinkingLevel and
\* setVerbose each change exactly the one field they name and leave every
\* other SessionState field, lastActivity and the continuation token
\* included, unchanged; clear() and updateSessionId change only sessionId and
\* lastActivity; touch() changes only lastActivity.
C32_MutatorFrames ==
  [][MutatorApplied =>
       LET call == sessionCall'.last
       IN /\ \A f \in DOMAIN state \ NamedFields(call.op) : state'[f] = state[f]
          /\ ArgumentStored(call)]_vars

\* setModel and then touch have run on a session that holds a token: the
\* model is the new one and the token is still there
C32_Witness ==
  /\ sessionCall.loaded
  /\ sessionCall.applied = 2
  /\ sessionCall.last.op = "touch"
  /\ state.sessionId = Some(TokD4)
  /\ state.model = "sonnet"
  /\ state.lastActivity = LaterTime

\* the values the types allow for thinkingLevel
ThinkingLevels == {"high", "medium", "low"}

\* C33: in every state after init, the default state created when there is
\* no session file included, permissionMode is one of default, acceptEdits,
\* plan, bypass, model is one of opus, sonnet, haiku, and thinkingLevel is one
\* of high, medium, low.
C33_EnumFields ==
  sessionCall.loaded =>
    /\ state.permissionMode \in PermissionModes
    /\ state.model \in ClaudeModels
    /\ state.thinkingLevel \in ThinkingLevels

\* ------------------------------------------------------------------------
\* ClaudeSpawner.buildEnrichedPrompt
\* ------------------------------------------------------------------------

NL == <<"\n">>

\* the system instruction
PromptPreamble1 == <<"Y", "o", "u", " ", "a", "r", "e", " ", "a", " ", "p", "e", "r", "s", "o", "n", "a", "l", " ", "A", "I", " ", "a", "s", "s", "i", "s", "t", "a", "n", "t", " ", "r", "e", "s", "p", "o", "n", "d", "i", "n", "g", " ", "v", "i", "a", " ", "T", "e", "l", "e", "g", "r", "a", "m", ".">>

PromptPreamble2 == <<"Y", "o", "u", " ", "h", "a", "v", "e", " ", "f", "u", "l", "l", " ", "C", "l", "a", "u", "d", "e", " ", "C", "o", "d", "e", " ", "c", "a", "p", "a", "b", "i", "l", "i", "t", "i", "e", "s", ":", " ", "t", "o", "o", "l", "s", ",", " ", "f", "i", "l", "e", " ", "a", "c", "c", "e", "s", "s", ",", " ", "w", "e", "b", " ", "s", "e", "a", "r", "c", "h", ",", " ", "g", "i", "t", ",", " ", "a", "n", "d", " ", "m", "o", "r", "e", ".">>

PromptPreamble3 == <<"K", "e", "e", "p", " ", "r", "e", "s", "p", "o", "n", "s", "e", "s", " ", "c", "o", "n", "c", "i", "s", "e", " ", "a", "n", "d", " ", "c", "o", "n", "v", "e", "r", "s", "a", "t", "i", "o", "n", "a", "l", " ", "f", "o", "r", " ", "T", "e", "l", "e", "g", "r", "a", "m", ".">>

TxtAssisting == <<"\n", "Y", "o", "u", " ", "a", "r", "e", " ", "a", "s", "s", "i", "s", "t", "i", "n", "g", " ">>

TxtCurrentTime == <<"C", "u", "r", "r", "e", "n", "t", " ", "t", "i", "m", "e", ":", " ">>

\* now.toLocaleString('en-US', ...) at the time of the call
TimeStr == <<"M", "o", "n", "d", "a", "y", ",", " ", "J", "a", "n", "u", "a", "r", "y", " ", "5", ",", " ", "2", "0", "2", "6", " ", "a", "t", " ", "0", "9", ":", "0", "0", " ", "A", "M">>

HdrSoul == <<"\n", "#", "#", " ", "W", "H", "O", " ", "Y", "O", "U", " ", "A", "R", "E", "\n">>

HdrAgents == <<"\n", "#", "#", " ", "W", "O", "R", "K", "S", "P", "A", "C", "E", " ", "G", "U", "I", "D", "E", "\n">>

HdrTools == <<"\n", "#", "#", " ", "L", "O", "C", "A", "L", " ", "E", "N", "V", "I", "R", "O", "N", "M", "E", "N", "T", "\n">>

HdrMemory == <<"\n", "#", "#", " ", "Y", "O", "U", "R", " ", "M", "E", "M", "O", "R", "Y", "\n">>

HdrFacts == <<"\n", "#", "#", " ", "F", "A", "C", "T", "S", " ", "&", " ", "G", "O", "A", "L", "S", "\n">>

HdrRelevant == <<"\n", "#", "#", " ", "R", "E", "L", "E", "V", "A", "N", "T", " ", "P", "A", "S", "T", " ", "C", "O", "N", "T", "E", "X", "T", "\n">>

HdrManagement == <<"\n", "#", "#", " ", "M", "E", "M", "O", "R", "Y", " ", "M", "A", "N", "A", "G", "E", "M", "E", "N", "T">>

TxtManagement1 == <<"W", "h", "e", "n", " ", "t", "h", "e", " ", "u", "s", "e", "r", " ", "s", "h", "a", "r", "e", "s", " ", "i", "m", "p", "o", "r", "t", "a", "n", "t", " ", "i", "n", "f", "o", "r", "m", "a", "t", "i", "o", "n", ",", " ", "u", "s", "e", " ", "t", "h", "e", "s", "e", " ", "t", "a", "g", "s", " ", "i", "n", " ", "y", "o", "u", "r", " ", "r", "e", "s", "p", "o", "n", "s", "e", ":">>

TxtManagement2 == <<"-", " ", "[", "R", "E", "M", "E", "M", "B", "E", "R", ":", " ", "f", "a", "c", "t", " ", "t", "o", " ", "s", "t", "o", "r", "e", "]", " ", "~", " ", "f", "o", "r", " ", "f", "a", "c", "t", "s", " ", "t", "o", " ", "r", "e", "m", "e", "m", "b", "e", "r">>

TxtManagement3 == <<"-", " ", "[", "G", "O", "A", "L", ":", " ", "t", "a", "s", "k", " ", "|", " ", "D", "E", "A", "D", "L", "I", "N", "E", ":", " ", "o", "p", "t", "i", "o", "n", "a", "l", " ", "d", "a", "t", "e", "]", " ", "~", " ", "f", "o", "r", " ", "g", "o", "a", "l", "s">>

TxtManagement4 == <<"-", " ", "[", "D", "O", "N", "E", ":", " ", "s", "e", "a", "r", "c", "h", " ", "t", "e", "x", "t", "]", " ", "~", " ", "t", "o", " ", "m", "a", "r", "k", " ", "a", " ", "g", "o", "a", "l", " ", "a", "s", " ", "c", "o", "m", "p", "l", "e", "t", "e", "d">>

TxtManagement5 == <<"T", "h", "e", "s", "e", " ", "t", "a", "g", "s", " ", "a", "r", "e", " ", "a", "u", "t", "o", "m", "a", "t", "i", "c", "a", "l", "l", "y", " ", "p", "r", "o", "c", "e", "s", "s", "e", "d", " ", "a", "n", "d", " ", "h", "i", "d", "d", "e", "n", " ", "f", "r", "o", "m", " ", "t", "h", "e", " ", "u", "s", "e", "r", ".">>

HdrUserMessage == <<"\n", "#", "#", " ", "U", "S", "E", "R", " ", "M", "E", "S", "S", "A", "G", "E", "\n">>

SectionAlways(header, content) ==
  NL \o header \o NL \o (IF content.some THEN content.v ELSE <<>>)

\* if (content) parts.push(header, content): the two parts once joined, each
\* after the newline that join('\n') puts before it; nothing for an empty or
\* missing content
Section(header, content) ==
  IF Truthy(content) THEN NL \o header \o NL \o content.v ELSE <<>>

\* the memory management instructions, each part after its newline (the
\* long dash of the tag lines is written ~)
ManagementSection ==
  NL \o HdrManagement \o NL \o TxtManagement1 \o NL \o TxtManagement2
  \o NL \o TxtManagement3 \o NL \o TxtManagement4 \o NL \o NL \o TxtManagement5

\* the parts up to the time line, joined
PromptHead(userName) ==
  PromptPreamble1 \o NL \o PromptPreamble2 \o NL \o PromptPreamble3
  \o (IF userName # <<>> THEN NL \o TxtAssisting \o userName \o <<".">> ELSE <<>>)
  \o NL \o TxtCurrentTime \o TimeStr

BuildEnrichedPromptMemoryFirst(userName, userMessage, files, memoryContext, relevantMessages) ==
  PromptHead(userName)
  \o Section(HdrMemory, files.memory)
  \o Section(HdrSoul, files.soul)
  \o Section(HdrAgents, files.agents)
  \o Section(HdrTools, files.tools)
  \o Section(HdrFacts, memoryContext)
  \o Section(HdrRelevant, relevantMessages)
  \o ManagementSection
  \o NL \o HdrUserMessage \o userMessage

\* ClaudeSpawner.buildEnrichedPrompt: parts.join('\n')
BuildEnrichedPrompt(userName, userMessage, files, memoryContext, relevantMessages) ==
  PromptHead(userName)
  \o Section(HdrSoul, files.soul)
  \o Section(HdrAgents, files.agents)
  \o Section(HdrTools, files.tools)
  \o Section(HdrMemory, files.memory)
  \o Section(HdrFacts, memoryContext)
  \o Section(HdrRelevant, relevantMessages)
  \o ManagementSection
  \o NL \o HdrUserMessage \o userMessage

\* a document or context: missing, empty, or the text
Contents(text) == {None, Some(<<>>), Some(text)}

PromptCallInputs ==
  {[NoPromptCall EXCEPT !.phase = "called", !.userName = userName,
                        !.userMessage = TxtHi, !.soul = soul, !.agents = agents,
                        !.tools = tools, !.memory = curated,
                        !.memoryContext = memoryContext,
                        !.relevantMessages = relevantMessages] :
     userName \in {<<>>, <<"B", "e", "n">>},
     soul \in Contents(<<"s", "o", "u", "l">>),
     agents \in Contents(<<"g", "u", "i", "d", "e">>),
     tools \in Contents(<<"e", "n", "v">>),
     curated \in Contents(<<"c", "u", "r", "a", "t", "e", "d">>),
     memoryContext \in Contents(TxtCallMom),
     relevantMessages \in Contents(<<"p", "a", "s", "t">>)}

InitPrompt ==
  /\ SystemAtRest
  /\ spawnCall = NoSpawnCall
  /\ intentCall = NoIntentCall
  /\ checkinCall = NoCheckinCall
  /\ sessionCall = NoSessionCall
  /\ promptCall \in PromptCallInputs
  /\ lockCall = NoLockCall
  /\ modeCall = NoModeCall
  /\ permCall = NoPermCall
  /\ chunkCall = NoChunkCall
  /\ projectCall = NoProjectCall

\* ClaudeSpawner.buildEnrichedPrompt
PromptBuilt ==
  /\ promptCall.phase = "called"
  /\ promptCall' = [promptCall EXCEPT
       !.phase = "returned",
       !.prompt = BuildEnrichedPrompt(
                    promptCall.userName, promptCall.userMessage,
                    [soul |-> promptCall.soul, agents |-> promptCall.agents,
                     tools |-> promptCall.tools, memory |-> promptCall.memory],
                    promptCall.memoryContext, promptCall.relevantMessages)]
  /\ UNCHANGED <<systemVars, spawnCall, intentCall, checkinCall, sessionCall,
                 lockCall, modeCall,
                 permCall, chunkCall, projectCall>>

NextPrompt == PromptBuilt

SpecPrompt == InitPrompt /\ [][NextPrompt]_vars

\* what opens each section, in the order of the specification: the system
\* preamble, the user identity, the six optional sections, the memory
\* management instructions, the user message
SectionMarkers ==
  <<PromptPreamble1, TxtAssisting, HdrSoul, HdrAgents, HdrTools, HdrMemory,
    HdrFacts, HdrRelevant, HdrManagement, HdrUserMessage>>

\* where each section starts in the built prompt (0 when it is absent), with
\* the rank of the section
SectionStarts ==
  {<<i, IndexOf(promptCall.prompt, SectionMarkers[i])>> :
     i \in 1..Len(SectionMarkers)}

\* C17: in every built prompt the sections that are present appear in the
\* order preamble, user identity, WHO YOU ARE, WORKSPACE GUIDE, LOCAL
\* ENVIRONMENT, YOUR MEMORY, FACTS & GOALS, RELEVANT PAST CONTEXT, MEMORY
\* MANAGEMENT, USER MESSAGE, and the user message is the last section.
C17_SectionOrder ==
  promptCall.phase = "returned" =>
    /\ \A a, b \in SectionStarts :
         (a[1] < b[1] /\ a[2] # 0 /\ b[2] # 0) => a[2] < b[2]
    /\ \E a \in SectionStarts : a[1] = 1 /\ a[2] = 1
    /\ \E a \in SectionStarts :
         /\ a[1] = Len(SectionMarkers)
         /\ a[2] # 0
         /\ SubSeq(promptCall.prompt, a[2], Len(promptCall.prompt))
              = HdrUserMessage \o promptCall.userMessage

\* a prompt with the user identity and all six optional sections has been built
C17_Witness ==
  /\ promptCall.phase = "returned"
  /\ \A a \in SectionStarts : a[2] # 0

\* the optional sections: the header and the content of each
OptionalSections ==
  <<[header |-> HdrSoul, content |-> promptCall.soul],
    [header |-> HdrAgents, content |-> promptCall.agents],
    [header |-> HdrTools, content |-> promptCall.tools],
    [header |-> HdrMemory, content |-> promptCall.memory],
    [header |-> HdrFacts, content |-> promptCall.memoryContext],
    [header |-> HdrRelevant, content |-> promptCall.relevantMessages]>>

NonEmpty(content) == content.some /\ content.v # <<>>

\* C18: for every combination of empty and non-empty documents, store context
\* and history, the built prompt contains the header of each section whose
\* content is non-empty and of no section whose content is empty or missing.
C18_HeadersOfNonEmptySections ==
  promptCall.phase = "returned" =>
    \A k \in 1..Len(OptionalSections) :
      Contains(promptCall.prompt, OptionalSections[k].header)
        <=> NonEmpty(OptionalSections[k].content)

\* a prompt has been built from empty, missing and non-empty contents
C18_Witness ==
  /\ promptCall.phase = "returned"
  /\ promptCall.soul = Some(<<>>)
  /\ promptCall.agents = None
  /\ NonEmpty(promptCall.tools)
  /\ promptCall.memory = Some(<<>>)
  /\ NonEmpty(promptCall.memoryContext)
  /\ promptCall.relevantMessages = None

\* ------------------------------------------------------------------------
\* The private bot
\* ------------------------------------------------------------------------

\* the sender of the update is absent, or its id is not the configured one
Stranger(from) == ~from.some \/ NumToStr(from.id) # AllowedUserId

\* an update has arrived in the step, from a sender other than the configured
\* user
StrangerArrives == incoming'.arrived /\ Stranger(incoming'.from)

\* C20: no handler runs for an update whose sender is not the configured
\* user: the session, the tasks, the memory and the invocations stay as they
\* are, and the update gets the 'This bot is private.' reply alone.
C20_PrivateBot ==
  [][StrangerArrives =>
       /\ calls' = <<Sent(TxtPrivate)>>
       /\ UNCHANGED <<state, sessionFile, tasks, memory, started,
                      clearPending>>]_vars

\* an update of a stranger has been turned away after an invocation for the
\* user's own message
C20_Witness ==
  /\ incoming.arrived
  /\ Stranger(incoming.from)
  /\ incoming.from.some
  /\ calls = <<Sent(TxtPrivate)>>
  /\ started > 0

\* ------------------------------------------------------------------------
\* The reply and the store
\* ------------------------------------------------------------------------

\* the reply of handler h has been sent
Replied(h) ==
  /\ tasks[h].pc = "touching"
  /\ tasks[h].replies # <<>>
  /\ \A i \in 1..Len(tasks[h].replies) :
       \E k \in 1..Len(calls) : calls[k] = Sent(tasks[h].replies[i])

CronNeverResumes ==
  \A c \in CronIds :
    tasks[c].pc = "invoking" =>
      /\ ~tasks[c].options.resume
      /\ tasks[c].options.sessionId = None
      /\ \A i \in 1..Len(TaskArgs(c)) : TaskArgs(c)[i] # Word("--resume")

\* a step of a cron task leaves the session state and its file as they are
CronLeavesSession ==
  \A c \in CronIds :
    tasks'[c].pc # tasks[c].pc => state' = state /\ sessionFile' = sessionFile

\* C27: a check-in or a briefing invokes the engine without a resume flag and
\* without a token whatever the session state is, and none of its steps, its
\* completion with a message or with an error included, changes a field of
\* the session state.
C27_CronIsStateless == []CronNeverResumes /\ [][CronLeavesSession]_vars

\* a cron task has sent its message while the session has a token
C27_Witness ==
  \E c \in CronIds :
    /\ tasks[c].pc = "logging"
    /\ Truthy(state.sessionId)

\* the step is one of handleClear or handleCompact: its replies are sent
ClearStep ==
  calls' \in {<<Sent(TxtCleared)>>, <<Sent(TxtCompacting), Sent(TxtCompacted)>>}

\* C30: a session token that is set stays set through every step of the
\* message handlers and the cron tasks, whether the invocation fails, answers
\* with a Session ID line or answers without one; only clear() removes it.
C30_TokenStaysUntilClear ==
  [][(Truthy(state.sessionId) /\ ~ClearStep) => Truthy(state'.sessionId)]_vars

\* a handler has finished a message whose answer had no Session ID line, and
\* the session still has its token
C30_Witness ==
  /\ Truthy(state.sessionId)
  /\ calls = <<>>
  /\ Running = {}
  /\ started > 0
  /\ state.lastActivity = LaterTime
  /\ state.sessionId = Some(TokD4)

\* ------------------------------------------------------------------------
\* The working directory of the invocations
\* ------------------------------------------------------------------------

\* C21: the engine invocation of a message handler runs in the directory of
\* the active project and, with no active project, in the workspace directory.
C21_RunsInProjectDir ==
  \A h \in HandlerIds :
    tasks[h].pc = "invoking" =>
      tasks[h].options.workingDir = GetCurrentProjectPath(state)

\* ------------------------------------------------------------------------
\* The permission modes
\* ------------------------------------------------------------------------

\* the characters of the name of a permission mode
ModeText(m) ==
  CASE m = "default" -> <<"d", "e", "f", "a", "u", "l", "t">>
    [] m = "acceptEdits" -> <<"a", "c", "c", "e", "p", "t", "E", "d", "i", "t", "s">>
    [] m = "plan" -> <<"p", "l", "a", "n">>
    [] m = "bypass" -> <<"b", "y", "p", "a", "s", "s">>
    [] OTHER -> <<>>

TxtAccept == <<"a", "c", "c", "e", "p", "t">>

\* stands for the cross mark of the replies
CrossSign == "x"

\* the first line of the reply of /mode without an argument; the list of the
\* modes follows it
TxtCurrentMode == <<"*", "*", "C", "u", "r", "r", "e", "n", "t", " ", "M", "o", "d", "e", ":", "*", "*", " ">>

TxtInvalidMode == <<CrossSign>> \o <<" ", "I", "n", "v", "a", "l", "i", "d", " ", "m", "o", "d", "e", ".">>

TxtModeChanged == <<CheckSign>> \o <<" ", "P", "e", "r", "m", "i", "s", "s", "i", "o", "n", " ", "m", "o", "d", "e", " ", "c", "h", "a", "n", "g", "e", "d", " ", "t", "o", ":", " ">>

\* what a command handler has done: the session state, whether it was saved,
\* the replies
Handled(s, saved, replies) == [state |-> s, saved |-> saved, replies |-> replies]

\* CommandHandler.handleMode
HandleMode(s, args) ==
  IF ~Truthy(args)
  THEN Handled(s, FALSE, <<TxtCurrentMode \o ModeText(s.permissionMode)>>)
  ELSE LET mode == LowerStr(args.v)
       IN IF \A m \in PermissionModes : ModeText(m) # mode
          THEN Handled(s, FALSE, <<TxtInvalidMode>>)
          ELSE Handled([s EXCEPT !.permissionMode =
                          IF mode = TxtAccept THEN "acceptEdits"
                          ELSE CHOOSE m \in PermissionModes : ModeText(m) = mode],
                       TRUE, <<TxtModeChanged \o mode>>)

SensitiveTools == {"Bash", "Write", "Edit", "WebSearch", "WebFetch"}

RequiresPermissionEditsAsk(toolName, permissionMode) ==
  IF permissionMode = "bypass" THEN FALSE
  ELSE IF permissionMode = "plan" THEN TRUE
  ELSE toolName \in SensitiveTools

\* PermissionHandler.requiresPermission
RequiresPermission(toolName, permissionMode) ==
  IF permissionMode = "bypass" THEN FALSE
  ELSE IF permissionMode = "plan" THEN TRUE
  ELSE IF permissionMode = "acceptEdits"
  THEN toolName \in SensitiveTools /\ toolName \notin {"Edit", "Write"}
  ELSE toolName \in SensitiveTools

\* the arguments /mode is sent with: none, the documented ones, and others
ModeArgs ==
  {None, Some(ModeText("default")), Some(TxtAccept), Some(ModeText("plan")),
   Some(ModeText("bypass")), Some(ModeText("acceptEdits")),
   Some(<<"P", "L", "A", "N">>), Some(<<"y", "o", "l", "o">>)}

\* the tools a permission check is made for
Tools == SensitiveTools \cup {"Read", "Glob", "Grep", "Task", "bash", ""}

InitMode ==
  /\ SystemAtRest
  /\ spawnCall = NoSpawnCall
  /\ intentCall = NoIntentCall
  /\ checkinCall = NoCheckinCall
  /\ sessionCall = NoSessionCall
  /\ promptCall = NoPromptCall
  /\ lockCall = NoLockCall
  /\ modeCall = NoModeCall
  /\ permCall = NoPermCall
  /\ chunkCall = NoChunkCall
  /\ projectCall = NoProjectCall

modeRest == <<tasks, memory, calls, started, clearPending, incoming, spawnCall,
              intentCall, checkinCall, sessionCall, promptCall, lockCall,
              permCall, chunkCall, projectCall>>

\* the user sends /mode: handleMode with the text after the command
ModeCommand(args) ==
  /\ LET done == HandleMode(state, args)
     IN /\ state' = done.state
        /\ sessionFile' = IF done.saved THEN Saved(done.state) ELSE sessionFile
        /\ modeCall' = [NoModeCall EXCEPT !.phase = "mode", !.args = args,
                                          !.before = state.permissionMode,
                                          !.replies = done.replies]
  /\ UNCHANGED modeRest

\* a permission check for a tool
ToolChecked(toolName, permissionMode) ==
  /\ modeCall' = [NoModeCall EXCEPT
       !.phase = "tool", !.tool = toolName, !.mode = permissionMode,
       !.asks = RequiresPermission(toolName, permissionMode)]
  /\ UNCHANGED <<state, sessionFile, modeRest>>

NextMode ==
  \/ \E args \in ModeArgs : ModeCommand(args)
  \/ \E toolName \in Tools, permissionMode \in PermissionModes :
       ToolChecked(toolName, permissionMode)

SpecMode == InitMode /\ [][NextMode]_vars

\* the mode each documented argument of /mode stands for
DocumentedMode(text) ==
  CASE text = ModeText("default") -> "default"
    [] text = TxtAccept -> "acceptEdits"
    [] text = ModeText("plan") -> "plan"
    [] text = ModeText("bypass") -> "bypass"
    [] OTHER -> ""

\* C24: after /mode with one of the four documented arguments the session's
\* permission mode is the mode it stands for, and it is saved; after /mode
\* with any other argument the permission mode is as it was.
C24_ModeCommand ==
  (modeCall.phase = "mode" /\ Truthy(modeCall.args)) =>
    IF DocumentedMode(modeCall.args.v) # ""
    THEN /\ state.permissionMode = DocumentedMode(modeCall.args.v)
         /\ sessionFile = Saved(state)
    ELSE DocumentedMode(LowerStr(modeCall.args.v)) # ""
         \/ state.permissionMode = modeCall.before

\* C25: no tool needs permission in bypass mode, every tool in plan mode, Bash,
\* WebSearch and WebFetch alone in acceptEdits mode, and Bash, Write, Edit,
\* WebSearch and WebFetch alone in default mode.
C25_RequiresPermission ==
  modeCall.phase = "tool" =>
    modeCall.asks =
      CASE modeCall.mode = "bypass" -> FALSE
        [] modeCall.mode = "plan" -> TRUE
        [] modeCall.mode = "acceptEdits" ->
             modeCall.tool \in {"Bash", "WebSearch", "WebFetch"}
        [] modeCall.mode = "default" ->
             modeCall.tool \in {"Bash", "Write", "Edit", "WebSearch", "WebFetch"}

\* Write has been checked in acceptEdits mode, and needs no permission
C25_Witness ==
  /\ modeCall.phase = "tool"
  /\ modeCall.tool = "Write"
  /\ modeCall.mode = "acceptEdits"
  /\ ~modeCall.asks

\* ------------------------------------------------------------------------
\* The lock file and the configuration of main()
\* ------------------------------------------------------------------------

\* the length of the secret of a bot token
TokenSecretLen == 35

TokenChars == LowerLetters \cup UpperLetters \cup Digits \cup {"_", "-"}

\* the position of the first ch of s, 0 when there is none
FirstOf(s, ch) ==
  IF \E k \in 1..Len(s) : s[k] = ch
  THEN CHOOSE k \in 1..Len(s) : s[k] = ch /\ \A i \in 1..(k - 1) : s[i] # ch
  ELSE 0

\* /^\d+:[A-Za-z0-9_-]{35}$/
IsBotToken(s) ==
  LET k == FirstOf(s, ":")
  IN /\ k > 1
     /\ \A i \in 1..(k - 1) : s[i] \in Digits
     /\ Len(s) - k = TokenSecretLen
     /\ \A i \in (k + 1)..Len(s) : s[i] \in TokenChars

\* /^\d+$/
IsDigits(s) == s # <<>> /\ \A i \in 1..Len(s) : s[i] \in Digits

\* new URL(s) does not throw: s has a scheme (the urls of the model have no
\* other defect)
IsUrl(s) ==
  LET k == FirstOf(s, ":")
  IN /\ k > 1
     /\ \A i \in 1..(k - 1) : s[i] \in LowerLetters \cup UpperLetters

\* loadConfig throws: required() finds a variable that is not set or empty
LoadConfigThrows(env) ==
  \/ env.botToken = <<>>
  \/ env.userId = <<>>
  \/ env.supabaseUrl = <<>>
  \/ env.supabaseAnonKey = <<>>

ValidateConfigThrowsUrlOnly(env) == ~IsUrl(env.supabaseUrl)

\* validateConfig throws; the model, the voice provider and the briefing time
\* it also looks at have their defaults
ValidateConfigThrows(env) ==
  \/ ~IsBotToken(env.botToken)
  \/ ~IsDigits(env.userId)
  \/ ~IsUrl(env.supabaseUrl)

TxtGoodToken == <<"1", "2", ":">> \o [i \in 1..TokenSecretLen |-> "a"]

TxtShortToken == <<"1", "2", ":", "a", "b", "c">>

TxtNamedUser == <<"@", "m", "e">>

TxtGoodUrl == <<"h", "t", "t", "p", "s", ":", "/", "/", "x", ".", "c", "o">>

TxtNoSchemeUrl == <<"x", ".", "c", "o">>

TxtAnonKey == <<"k", "e", "y">>

\* an environment with every required setting well formed
GoodEnv == Env(TxtGoodToken, AllowedUserId, TxtGoodUrl, TxtAnonKey)

\* environments with one required setting missing or malformed
BadEnvs ==
  {[GoodEnv EXCEPT !.botToken = <<>>],
   [GoodEnv EXCEPT !.botToken = TxtShortToken],
   [GoodEnv EXCEPT !.userId = TxtNamedUser],
   [GoodEnv EXCEPT !.supabaseUrl = TxtNoSchemeUrl],
   [GoodEnv EXCEPT !.supabaseAnonKey = <<>>]}

Envs == {GoodEnv} \cup BadEnvs

\* parseInt of the content of the lock file: the process id written there, 0
\* (for NaN) when it is none
ParseInt(s) ==
  IF \E n \in Pids : NumToStr(n) = s
  THEN CHOOSE n \in Pids : NumToStr(n) = s
  ELSE 0

\* process.kill(pid, 0) does not throw: the process exists
Alive(pid) == pid \in Pids /\ lockCall.procs[pid] \notin {"off", "exited"}

InitLock ==
  /\ SystemAtRest
  /\ spawnCall = NoSpawnCall
  /\ intentCall = NoIntentCall
  /\ checkinCall = NoCheckinCall
  /\ sessionCall = NoSessionCall
  /\ promptCall = NoPromptCall
  /\ lockCall = NoLockCall
  /\ modeCall = NoModeCall
  /\ permCall = NoPermCall
  /\ chunkCall = NoChunkCall
  /\ projectCall = NoProjectCall

lockRest == <<systemVars, spawnCall, intentCall, checkinCall, sessionCall,
              promptCall, modeCall,
                 permCall, chunkCall, projectCall>>

\* a process starts main(): acquireLock up to the await of readFile
Launch(p) ==
  /\ lockCall.procs[p] = "off"
  /\ lockCall' = [lockCall EXCEPT !.procs[p] = "reading"]
  /\ UNCHANGED lockRest

\* readFile settles: with a lock of a live process acquireLock returns false,
\* else (no file, an empty one, a stale one) it goes on to writeFile
LockRead(p) ==
  /\ lockCall.procs[p] = "reading"
  /\ LET existingLock == lockCall.file
     IN lockCall' = [lockCall EXCEPT !.procs[p] =
          IF Truthy(existingLock) /\ Alive(ParseInt(existingLock.v))
          THEN "refused" ELSE "writing"]
  /\ UNCHANGED lockRest

\* writeFile settles: acquireLock returns true and main() enters its try block
LockWritten(p) ==
  /\ lockCall.procs[p] = "writing"
  /\ lockCall' = [lockCall EXCEPT !.file = Some(NumToStr(p)),
                                  !.procs[p] = "loading"]
  /\ UNCHANGED lockRest

\* main() of a process that did not get the lock: process.exit(1), whose
\* exit handler unlinks the lock file
RefusedExits(p) ==
  /\ lockCall.procs[p] = "refused"
  /\ lockCall' = [lockCall EXCEPT !.file = None, !.procs[p] = "exited",
                                  !.code[p] = 1]
  /\ UNCHANGED lockRest

\* the try block of main(): loadConfig and validateConfig, then the components
\* and bot.start(); a configuration error is caught, the lock released and
\* the process left with code 1
Startup(p, env) ==
  /\ lockCall.procs[p] = "loading"
  /\ lockCall' =
       IF LoadConfigThrows(env) \/ ValidateConfigThrows(env)
       THEN [lockCall EXCEPT !.file = None, !.procs[p] = "exited",
                             !.env[p] = env, !.code[p] = 1]
       ELSE [lockCall EXCEPT !.procs[p] = "running", !.env[p] = env]
  /\ UNCHANGED lockRest

\* SIGINT or SIGTERM: the bot stops, releaseLock unlinks the lock file
Shutdown(p) ==
  /\ lockCall.procs[p] = "running"
  /\ lockCall' = [lockCall EXCEPT !.file = None, !.procs[p] = "exited",
                                  !.code[p] = 0]
  /\ UNCHANGED lockRest

NextLock ==
  \/ \E p \in Pids : Launch(p)
  \/ \E p \in Pids : LockRead(p)
  \/ \E p \in Pids : LockWritten(p)
  \/ \E p \in Pids : RefusedExits(p)
  \/ \E p \in Pids, env \in Envs : Startup(p, env)
  \/ \E p \in Pids : Shutdown(p)

SpecLock == InitLock /\ [][NextLock]_vars

\* C19: of the processes that run acquireLock, concurrently or while a live
\* instance holds the lock, at most one obtains the lock and runs the bot.
C19_OneInstance ==
  Cardinality({p \in Pids : lockCall.procs[p] = "running"}) <= 1

\* process p has written its PID to the lock file and has not shut down
HoldsLock(p) == lockCall.procs[p] \in {"loading", "running"}

\* a process that was refused the lock leaves the lock file as it is
RefusedLeavesLock ==
  \A q \in Pids :
    (lockCall.procs[q] = "refused" /\ lockCall'.procs[q] = "exited")
      => lockCall'.file = lockCall.file

\* a step of another process than p that starts, is refused the lock, or
\* exits after that
OtherStartsOrExits(p) ==
  \E q \in Pids \ {p} :
    /\ lockCall.procs[q] \in {"off", "reading", "refused"}
    /\ lockCall'.procs[q] # lockCall.procs[q]
    /\ lockCall'.procs[q] \in {"reading", "refused", "exited"}

\* the lock file of an instance goes on holding its PID while other processes
\* start and exit
HolderKeepsLock ==
  \A p \in Pids :
    (HoldsLock(p) /\ lockCall.file = Some(NumToStr(p)) /\ OtherStartsOrExits(p))
      => lockCall'.file = Some(NumToStr(p))

\* C36: a process whose acquireLock fails because a live instance holds the
\* lock leaves the lock file in place: from the moment an instance writes its
\* PID until it shuts down, the lock file exists and holds that PID, whatever
\* other processes start and exit meanwhile.
C36_LockStaysInPlace == [][RefusedLeavesLock /\ HolderKeepsLock]_vars

\* process p has left, with a code other than 0 and without its lock
LeftWithoutLock(p) ==
  /\ lockCall.procs[p] = "exited"
  /\ lockCall.code[p] # 0
  /\ lockCall.file # Some(NumToStr(p))

\* C23: a process whose environment has a required setting missing or
\* malformed exits with a non-zero code and its lock released, and never
\* starts the bot: in the step in which it reads the environment, and since.
C23_ConfigErrorIsFatal ==
  \A p \in Pids : lockCall.env[p] \in BadEnvs => LeftWithoutLock(p)

\* a process has left over a malformed user id, after it got the lock
C23_Witness ==
  \E p \in Pids :
    /\ lockCall.env[p] = [GoodEnv EXCEPT !.userId = TxtNamedUser]
    /\ LeftWithoutLock(p)

\* ------------------------------------------------------------------------
\* PermissionHandler under direct calls
\* ------------------------------------------------------------------------

InitPermission ==
  /\ SystemAtRest
  /\ spawnCall = NoSpawnCall
  /\ intentCall = NoIntentCall
  /\ checkinCall = NoCheckinCall
  /\ sessionCall = NoSessionCall
  /\ promptCall = NoPromptCall
  /\ lockCall = NoLockCall
  /\ modeCall = NoModeCall
  /\ permCall = NoPermCall
  /\ chunkCall = NoChunkCall
  /\ projectCall = NoProjectCall

permRest == <<systemVars, spawnCall, intentCall, checkinCall, sessionCall,
              promptCall, lockCall, modeCall, chunkCall, projectCall>>

\* resolve or reject is called on the promise of a request: requestPermission
\* returns if it is at its await of the promise
Settled(q, by, approved) ==
  [q EXCEPT !.settles = @ + 1, !.settledBy = by, !.choice = approved,
            !.phase = IF q.phase = "waiting" THEN "returned" ELSE @,
            !.result = IF q.phase = "waiting" THEN approved ELSE @]

\* requestPermission up to its await of sendPermissionRequest: the request is
\* put in the map and its timer is set
RequestPermission(r) ==
  /\ permCall.requests[r].phase = "none"
  /\ permCall' = [permCall EXCEPT
       !.requests[r].phase = "sending",
       !.requests[r].timer = "set",
       !.pendingRequests = @ \cup {r}]
  /\ UNCHANGED permRest

\* sendPermissionRequest settles: when ctx.reply has failed requestPermission
\* returns false from its catch; else it awaits the promise, which may have
\* been rejected meanwhile
SendPermissionRequest(r, ok) ==
  LET q == permCall.requests[r]
  IN /\ q.phase = "sending"
     /\ permCall' = [permCall EXCEPT !.requests[r] =
          IF ~ok THEN [q EXCEPT !.phase = "returned", !.result = FALSE]
          ELSE IF q.settles > 0
          THEN [q EXCEPT !.phase = "returned", !.result = FALSE, !.sent = TRUE]
          ELSE [q EXCEPT !.phase = "waiting", !.sent = TRUE]]
     /\ UNCHANGED permRest

\* handleCallback for a button of request r (the buttons exist once the
\* message has been sent)
HandleCallback(r, approved) ==
  /\ permCall.requests[r].sent
  /\ IF r \in permCall.pendingRequests
     THEN permCall' = [permCall EXCEPT
            !.pendingRequests = @ \ {r},
            !.requests[r] = Settled(@, "callback", approved),
            !.answer = [id |-> r, expired |-> FALSE]]
     ELSE permCall' = [permCall EXCEPT !.answer = [id |-> r, expired |-> TRUE]]
  /\ UNCHANGED permRest

TimeoutFiresUnguarded(r) ==
  /\ permCall.requests[r].timer = "set"
  /\ permCall' = [permCall EXCEPT
       !.pendingRequests = @ \ {r},
       !.requests[r] = [Settled(@, "timeout", FALSE) EXCEPT !.timer = "fired"]]
  /\ UNCHANGED permRest

\* the timer of request r fires after five minutes
TimeoutFires(r) ==
  /\ permCall.requests[r].timer = "set"
  /\ IF r \in permCall.pendingRequests
     THEN permCall' = [permCall EXCEPT
            !.pendingRequests = @ \ {r},
            !.requests[r] = [Settled(@, "timeout", FALSE) EXCEPT !.timer = "fired"]]
     ELSE permCall' = [permCall EXCEPT !.requests[r].timer = "fired"]
  /\ UNCHANGED permRest

\* clearPending: every request of the map is rejected, and the map emptied
ClearPendingRequests ==
  /\ permCall.pendingRequests # {}
  /\ permCall' = [permCall EXCEPT
       !.pendingRequests = {},
       !.requests = [r \in RequestIds |->
          IF r \in permCall.pendingRequests
          THEN Settled(permCall.requests[r], "cleared", FALSE)
          ELSE permCall.requests[r]]]
  /\ UNCHANGED permRest

\* getPendingCount
GetPendingCount ==
  /\ permCall' = [permCall EXCEPT !.count = Cardinality(permCall.pendingRequests)]
  /\ UNCHANGED permRest

NextPermission ==
  \/ \E r \in RequestIds : RequestPermission(r)
  \/ \E r \in RequestIds, ok \in BOOLEAN : SendPermissionRequest(r, ok)
  \/ \E r \in RequestIds, approved \in BOOLEAN : HandleCallback(r, approved)
  \/ \E r \in RequestIds : TimeoutFires(r)
  \/ ClearPendingRequests
  \/ GetPendingCount

SpecPermission == InitPermission /\ [][NextPermission]_vars

\* requestPermission has returned for request r
Returned(r) == permCall.requests[r].phase = "returned"

\* request r is settled at most once, at the latest when its timer fires;
\* it leaves the map by being settled and not otherwise; requestPermission
\* does not go on waiting for a settled request; and what it has returned is
\* the user's choice after a callback, false after a timeout or clearPending
SettledOnce(r) ==
  LET q == permCall.requests[r]
  IN /\ q.settles <= 1
     /\ q.timer = "fired" => q.settles = 1
     /\ q.phase # "none" => (r \notin permCall.pendingRequests <=> q.settles = 1)
     /\ q.phase = "waiting" => q.settles = 0
     /\ q.settles = 1 => q.settledBy \in {"callback", "timeout", "cleared"}
     /\ (Returned(r) /\ q.settledBy = "callback") => q.result = q.choice
     /\ (Returned(r) /\ q.settledBy \in {"timeout", "cleared"}) => q.result = FALSE

\* a callback for a request that is not pending is answered as expired and
\* settles nothing
ExpiredCallback ==
  \A r \in RequestIds :
    (permCall'.answer # permCall.answer /\ permCall'.answer.id = r
       /\ r \notin permCall.pendingRequests)
      => /\ permCall'.answer.expired
         /\ permCall'.requests = permCall.requests
         /\ permCall'.pendingRequests = permCall.pendingRequests

C37_ReturnedNotPending ==
  \A r \in RequestIds : Returned(r) => r \notin permCall.pendingRequests

\* ------------------------------------------------------------------------
\* MessageHandler.sendResponse on long texts
\* ------------------------------------------------------------------------

\* n letters without white space
Run(n) == [i \in 1..n |-> "a"]

\* the pieces the response texts are made of: words up to and beyond
\* MAX_LENGTH, a space, a newline, a blank line
ChunkParts ==
  {Run(1), Run(MaxLength - 2), Run(MaxLength), Run(MaxLength + 1),
   <<" ">>, <<"\n">>, <<"\n", "\n">>}

\* the texts handed to sendResponse: what processMemoryIntents returns, which
\* is trimmed
ResponseTexts ==
  {Trim(Concat(parts)) : parts \in UNION {[1..n -> ChunkParts] : n \in 0..MaxParts}}

InitChunk ==
  /\ SystemAtRest
  /\ spawnCall = NoSpawnCall
  /\ intentCall = NoIntentCall
  /\ checkinCall = NoCheckinCall
  /\ sessionCall = NoSessionCall
  /\ promptCall = NoPromptCall
  /\ lockCall = NoLockCall
  /\ modeCall = NoModeCall
  /\ permCall = NoPermCall
  /\ chunkCall \in {[phase |-> "called", text |-> text, chunks |-> <<>>] :
                      text \in ResponseTexts}
  /\ projectCall = NoProjectCall

\* sendResponse runs to its end
ResponseSent ==
  /\ chunkCall.phase = "called"
  /\ chunkCall' = [chunkCall EXCEPT !.phase = "sent",
                                    !.chunks = SendResponse(chunkCall.text)]
  /\ UNCHANGED <<systemVars, spawnCall, intentCall, checkinCall, sessionCall,
                 promptCall, lockCall, modeCall, permCall, projectCall>>

NextChunk == ResponseSent

SpecChunk == InitChunk /\ [][NextChunk]_vars

\* the chunks are the text in order, with nothing but white space left out
\* between them and after the last
RECURSIVE Covers(_, _)
Covers(text, chunks) ==
  IF chunks = <<>> THEN Trim(text) = <<>>
  ELSE /\ OccursAt(text, Head(chunks), 1)
       /\ Covers(TrimStart(SubSeq(text, Len(Head(chunks)) + 1, Len(text))),
                 Tail(chunks))

\* sub occurs in text at one of the places sendResponse looks at
InWindow(text, sub) == \E p \in 1..(MaxLength + 1) : OccursAt(text, sub, p)

\* each chunk but the last ends before a blank line if the text has one in
\* the window, else before a newline, else before a space, else after
\* exactly MaxLength characters
RECURSIVE CutsAtBoundaries(_, _)
CutsAtBoundaries(text, chunks) ==
  IF Len(chunks) <= 1 THEN TRUE
  ELSE LET chunk == Head(chunks)
           rest == TrimStart(SubSeq(text, Len(chunk) + 1, Len(text)))
       IN /\ IF InWindow(text, <<"\n", "\n">>)
             THEN OccursAt(text, <<"\n", "\n">>, Len(chunk) + 1)
             ELSE IF InWindow(text, <<"\n">>)
             THEN OccursAt(text, <<"\n">>, Len(chunk) + 1)
             ELSE IF InWindow(text, <<" ">>)
             THEN OccursAt(text, <<" ">>, Len(chunk) + 1)
             ELSE Len(chunk) = MaxLength
          /\ CutsAtBoundaries(rest, Tail(chunks))

\* the chunks are not empty and at most MaxLength long
ChunksWithinLimit(chunks) ==
  \A i \in 1..Len(chunks) : chunks[i] # <<>> /\ Len(chunks[i]) <= MaxLength

\* C35: for any response text, sendResponse ends and sends the whole text in
\* order, apart from white space trimmed where it splits, as finitely many
\* non-empty chunks of at most 4000 characters, splitting at a blank line,
\* else at a newline, else at a space, else at exactly 4000 characters.
C35_Chunking ==
  chunkCall.phase = "sent" =>
    /\ ChunksWithinLimit(chunkCall.chunks)
    /\ Covers(chunkCall.text, chunkCall.chunks)
    /\ CutsAtBoundaries(chunkCall.text, chunkCall.chunks)

\* ------------------------------------------------------------------------
\* ProjectHandler under direct calls
\* ------------------------------------------------------------------------

\* the ids generateProjectId can return
ProjectIds == {ProjectId, <<"p", "2">>}

\* the ids the calls are made with: those, and one that was never generated
CalledIds == ProjectIds \cup {<<"p", "9">>}

\* which writeFile of a call fails, if any
WriteFailures == {"none", "projects", "session"}

\* a Project of the registry
Project(id, lastAccessed) ==
  [id |-> id, path |-> JoinPath(ProjectsDir, id), lastAccessed |-> lastAccessed]

\* this.projects.get(id), as the set of the projects with this id
FindProject(id) == {project \in projectCall.projects : project.id = id}

InitProject ==
  /\ SystemAtRest
  /\ spawnCall = NoSpawnCall
  /\ intentCall = NoIntentCall
  /\ checkinCall = NoCheckinCall
  /\ sessionCall = NoSessionCall
  /\ promptCall = NoPromptCall
  /\ lockCall = NoLockCall
  /\ modeCall = NoModeCall
  /\ permCall = NoPermCall
  /\ chunkCall = NoChunkCall
  /\ projectCall = NoProjectCall

projectRest == <<tasks, memory, calls, started, clearPending, incoming,
                 spawnCall, intentCall, checkinCall, sessionCall, promptCall,
                 lockCall, modeCall, permCall, chunkCall>>

\* session.setProject as the ProjectHandler calls it: the field is set, and
\* the state is written unless the write fails
SetProject(projectId, failure) ==
  /\ state' = Mutate(state, SessionOp("setProject", projectId, "", 0, 0, FALSE),
                     LaterTime)
  /\ sessionFile' = IF failure = "session" THEN sessionFile ELSE Saved(state')

\* ProjectHandler.createProject with the id that generateProjectId returns
CreateProject(id, failure) ==
  LET registry == projectCall.projects \cup {Project(id, StartTime)}
  IN /\ id \notin projectCall.generated
     /\ failure # "session"
     /\ projectCall' = [projectCall EXCEPT
          !.projects = registry,
          !.projectsFile = IF failure = "projects" THEN @ ELSE registry,
          !.generated = @ \cup {id},
          !.last = ProjectOp("createProject", id, state.currentProject),
          !.returned = failure = "none",
          !.threw = @ \/ failure = "projects"]
     /\ UNCHANGED <<state, sessionFile, projectRest>>

\* ProjectHandler.switchProject
SwitchProject(projectId, failure) ==
  LET registry == (projectCall.projects \ FindProject(projectId))
                    \cup {Project(projectId, LaterTime)}
      call == ProjectOp("switchProject", projectId, state.currentProject)
  IN IF FindProject(projectId) = {}
     THEN /\ failure = "none"
          /\ projectCall' = [projectCall EXCEPT !.last = call, !.returned = FALSE]
          /\ UNCHANGED <<state, sessionFile, projectRest>>
     ELSE /\ projectCall' = [projectCall EXCEPT
               !.projects = registry,
               !.projectsFile = IF failure = "projects" THEN @ ELSE registry,
               !.last = call,
               !.returned = failure = "none",
               !.threw = @ \/ failure # "none"]
          /\ IF failure = "projects" THEN UNCHANGED <<state, sessionFile>>
             ELSE SetProject(Some(projectId), failure)
          /\ UNCHANGED projectRest

\* ProjectHandler.exitProject
ExitProject(failure) ==
  /\ failure # "projects"
  /\ projectCall' = [projectCall EXCEPT
       !.last = ProjectOp("exitProject", <<>>, state.currentProject),
       !.returned = failure = "none",
       !.threw = @ \/ failure = "session"]
  /\ SetProject(None, failure)
  /\ UNCHANGED projectRest

DeleteProjectKeepsCurrent(projectId, failure) ==
  LET registry == projectCall.projects \ FindProject(projectId)
  IN /\ failure = "none"
     /\ projectCall' = [projectCall EXCEPT
          !.projects = registry,
          !.projectsFile = registry,
          !.last = ProjectOp("deleteProject", projectId, state.currentProject),
          !.returned = FindProject(projectId) # {}]
     /\ UNCHANGED <<state, sessionFile, projectRest>>

\* ProjectHandler.deleteProject
DeleteProject(projectId, failure) ==
  LET registry == projectCall.projects \ FindProject(projectId)
      call == ProjectOp("deleteProject", projectId, state.currentProject)
      isCurrent == state.currentProject = Some(projectId)
  IN IF FindProject(projectId) = {}
     THEN /\ failure = "none"
          /\ projectCall' = [projectCall EXCEPT !.last = call, !.returned = FALSE]
          /\ UNCHANGED <<state, sessionFile, projectRest>>
     ELSE /\ failure = "session" => isCurrent
          /\ projectCall' = [projectCall EXCEPT
               !.projects = registry,
               !.projectsFile = IF failure = "projects" THEN @ ELSE registry,
               !.last = call,
               !.returned = failure = "none",
               !.threw = @ \/ failure # "none"]
          /\ IF failure # "projects" /\ isCurrent
             THEN SetProject(None, failure)
             ELSE UNCHANGED <<state, sessionFile>>
          /\ UNCHANGED projectRest

NextProject ==
  \/ \E id \in ProjectIds, failure \in WriteFailures : CreateProject(id, failure)
  \/ \E id \in CalledIds, failure \in WriteFailures : SwitchProject(id, failure)
  \/ \E failure \in WriteFailures : ExitProject(failure)
  \/ \E id \in CalledIds, failure \in WriteFailures : DeleteProject(id, failure)

SpecProject == InitProject /\ [][NextProject]_vars

\* the ids of the projects in the registry
RegistryIds == {project.id : project \in projectCall.projects}

\* while no call has thrown, the session's current project is null or in the
\* registry
CurrentProjectKnown ==
  ~projectCall.threw =>
    \/ state.currentProject = None
    \/ state.currentProject.some /\ state.currentProject.v \in RegistryIds

\* a switchProject with an unknown id returns false and changes neither the
\* registry nor the session
UnknownSwitchRefused ==
  (/\ projectCall'.last.op = "switchProject"
   /\ projectCall'.last.id \notin RegistryIds)
    => /\ ~projectCall'.returned
       /\ projectCall'.projects = projectCall.projects
       /\ projectCall'.projectsFile = projectCall.projectsFile
       /\ state' = state
       /\ sessionFile' = sessionFile

\* a deleteProject of the current project that returns leaves no current
\* project
CurrentDeleted ==
  (/\ projectCall'.last.op = "deleteProject"
   /\ projectCall'.last.before = Some(projectCall'.last.id)
   /\ projectCall'.last.id \in RegistryIds
   /\ ~projectCall'.threw)
    => /\ projectCall'.returned
       /\ state'.currentProject = None
       /\ projectCall'.last.id \notin {project.id : project \in projectCall'.projects}

====
